---- MODULE Spec2Model ----
(***************************************************************************)
(* A model of lerp: the S-expression lexer/parser (parser.rs), the type    *)
(* and code vocabulary (typ.rs, code.rs) and the single-pass code          *)
(* generator (compiler.rs).                                                *)
(*                                                                         *)
(* Characters are one-character strings, texts are sequences of            *)
(* characters.  An Option<T> is a sequence of length 0 (None) or 1 (Some). *)
(***************************************************************************)
EXTENDS Integers, Sequences, FiniteSets, TLC

(***************************************************************************)
(* Bounds of the model.                                                    *)
(***************************************************************************)
\* longest source text explored by the parser specification
MaxTextLen == 6
\* most elements after the head of a flat list given to the compiler
MaxArgs == 3
\* most elements after the head of a list nested in another list
MaxInnerArgs == 2
\* most top-level nodes of a program of several nodes
MaxNodes == 2
\* the nesting depth of array types
MaxDepth == 2
\* the counts of array types
MaxCount == 2
\* the calls of compile_program on one Compiler
MaxCalls == 3

(***************************************************************************)
(* parser.rs: characters                                                   *)
(***************************************************************************)
\* char::is_ascii_whitespace: space, tab, line feed, form feed, carriage return
Whitespace == {" ", "\t", "\n", "\f", "\r"}

DigitChars == <<"0", "1", "2", "3", "4", "5", "6", "7", "8", "9">>

is_ascii_digit(c) == \E d \in 1..10 : DigitChars[d] = c

DigitVal(c) == (CHOOSE d \in 1..10 : DigitChars[d] = c) - 1

\* Lexer::SYMBOLS
SYMBOLS == {"(", ")", "\""}

\* largest value of the i32 an integer literal is parsed into
I32Max == 2147483647

(***************************************************************************)
(* parser.rs: nodes, positions, errors                                     *)
(***************************************************************************)
Position(ln, col) == [ln |-> ln, col |-> col]

SExprExpr(items, pos) == [tag |-> "Expr", items |-> items, pos |-> pos]
SExprWord(word, pos) == [tag |-> "Word", word |-> word, pos |-> pos]
SExprInt(int, pos) == [tag |-> "Int", int |-> int, pos |-> pos]
SExprFloat(float, pos) == [tag |-> "Float", float |-> float, pos |-> pos]
SExprString(string, pos) == [tag |-> "String", string |-> string, pos |-> pos]

Unexpected(c) == [kind |-> "Unexpected", c |-> c]
Unclosed(c) == [kind |-> "Unclosed", c |-> c]
UnclosedString == [kind |-> "UnclosedString"]
ParseIntError == [kind |-> "ParseIntError"]

\* placeholders for the fields a result does not carry
NoNode == [tag |-> "none"]
NoError == [kind |-> "none"]
NoPos == [ln |-> -1, col |-> -1]

(***************************************************************************)
(* parser.rs: Lexer                                                        *)
(***************************************************************************)
\* impl From<&str> for Lexer; `at` is the index of the next character of text
LexerFrom(text) == [text |-> text, at |-> 1, ln |-> 0, col |-> 0]

\* Lexer::peek
peek(lx) == IF lx.at <= Len(lx.text) THEN <<lx.text[lx.at]>> ELSE <<>>

\* Lexer::next, the lexer after the call (the character returned is peek(lx))
next(lx) ==
    IF lx.at > Len(lx.text) THEN lx
    ELSE IF lx.text[lx.at] = "\n"
         THEN [lx EXCEPT !.at = @ + 1, !.ln = @ + 1, !.col = 0]
         ELSE [lx EXCEPT !.at = @ + 1, !.col = @ + 1]

\* Lexer::pos
pos(lx) == Position(lx.ln, lx.col)

\* the whitespace-skipping loops of parse_next
RECURSIVE SkipWhitespace(_)
SkipWhitespace(lx) ==
    IF peek(lx) # <<>> /\ peek(lx)[1] \in Whitespace
    THEN SkipWhitespace(next(lx))
    ELSE lx

\* the loop of the '"' arm: characters up to the next '"' or the end of input
RECURSIVE ReadString(_, _)
ReadString(lx, string) ==
    IF peek(lx) # <<>> /\ peek(lx)[1] # "\""
    THEN ReadString(next(lx), Append(string, peek(lx)[1]))
    ELSE [lx |-> lx, text |-> string]

\* the digit loops of the number arm
RECURSIVE ReadDigits(_, _)
ReadDigits(lx, number) ==
    IF peek(lx) # <<>> /\ is_ascii_digit(peek(lx)[1])
    THEN ReadDigits(next(lx), Append(number, peek(lx)[1]))
    ELSE [lx |-> lx, text |-> number]

\* the loop of the word arm: up to whitespace or a reserved symbol
RECURSIVE ReadWord(_, _)
ReadWord(lx, word) ==
    IF peek(lx) # <<>> /\ peek(lx)[1] \notin Whitespace /\ peek(lx)[1] \notin SYMBOLS
    THEN ReadWord(next(lx), Append(word, peek(lx)[1]))
    ELSE [lx |-> lx, text |-> word]

\* the value of a digit string
RECURSIVE DecimalValue(_)
DecimalValue(digits) ==
    IF digits = <<>> THEN 0
    ELSE 10 * DecimalValue(SubSeq(digits, 1, Len(digits) - 1))
         + DigitVal(digits[Len(digits)])

RECURSIVE StripTrailingZeros(_)
StripTrailingZeros(digits) ==
    IF digits # <<>> /\ digits[Len(digits)] = "0"
    THEN StripTrailingZeros(SubSeq(digits, 1, Len(digits) - 1))
    ELSE digits

\* str::parse::<i32> of a digit string: Some(value), or None on overflow
ParseI32(number) ==
    IF DecimalValue(number) <= I32Max THEN <<DecimalValue(number)>> ELSE <<>>

\* str::parse::<f32> of digits '.' digits: the number denoted, as its integer part
\* and its fraction digits without trailing zeros (exact for the short literals
\* of the model, which have fewer significant digits than an f32 keeps)
ParseF32(whole, fraction) ==
    [whole |-> DecimalValue(whole), fraction |-> StripTrailingZeros(fraction)]

\* results of parse_next: Ok(Some(node)), Ok(None), Err(ParseError{kind, pos})
Some(lx, node) == [lx |-> lx, kind |-> "Some", node |-> node, err |-> NoError, pos |-> NoPos]
None(lx) == [lx |-> lx, kind |-> "None", node |-> NoNode, err |-> NoError, pos |-> NoPos]
Err(lx, err, at) == [lx |-> lx, kind |-> "Err", node |-> NoNode, err |-> err, pos |-> at]

\* mutant of StringArm: the end of input closes the string
StringArmClosedByEnd(lx, start) ==
    LET r == ReadString(lx, <<>>) IN Some(next(r.lx), SExprString(r.text, start))

\* the '"' arm of parse_next, after the opening quote was consumed
StringArm(lx, start) ==
    LET r == ReadString(lx, <<>>) IN
    IF peek(r.lx) = <<>>
    THEN Err(r.lx, UnclosedString, pos(r.lx))
    ELSE Some(next(r.lx), SExprString(r.text, start))

\* the digit arm of parse_next, after the first digit c was consumed
NumberArm(lx, c, start) ==
    LET whole == ReadDigits(lx, <<c>>) IN
    IF peek(whole.lx) = <<".">>
    THEN LET fraction == ReadDigits(next(whole.lx), <<>>) IN
         Some(fraction.lx, SExprFloat(ParseF32(whole.text, fraction.text), start))
    ELSE IF ParseI32(whole.text) = <<>>
         THEN Err(whole.lx, ParseIntError, start)
         ELSE Some(whole.lx, SExprInt(ParseI32(whole.text)[1], start))

\* the word arm of parse_next, after the first character c was consumed
WordArm(lx, c, start) ==
    LET r == ReadWord(lx, <<c>>) IN Some(r.lx, SExprWord(r.text, start))

\* mutant of UnclosedList: the error is positioned where the input ends
UnclosedListAtEnd(lx, start) == Err(lx, Unclosed("("), pos(lx))

\* the '(' arm of parse_next: the error of a list that the input ends in
UnclosedList(lx, start) == Err(lx, Unclosed("("), start)

RECURSIVE parse_next(_), ListArm(_, _, _)

\* Lexer::parse_next
parse_next(lx0) ==
    LET lx == SkipWhitespace(lx0)
        start == pos(lx)
        rest == next(lx)
    IN  IF peek(lx) = <<>> THEN None(lx)
        ELSE LET c == peek(lx)[1] IN
             CASE c = "(" -> ListArm(rest, start, <<>>)
               [] c = "\"" -> StringArm(rest, start)
               [] is_ascii_digit(c) -> NumberArm(rest, c, start)
               [] c \notin SYMBOLS /\ ~is_ascii_digit(c) -> WordArm(rest, c, start)
               [] OTHER -> Err(rest, Unexpected(c), start)

\* the '(' arm of parse_next: the child loop, then the closing parenthesis
ListArm(lx, start, exprs) ==
    IF peek(lx) # <<>> /\ peek(lx) # <<")">>
    THEN LET r == parse_next(lx) IN
         CASE r.kind = "Err" -> r
           [] r.kind = "None" -> UnclosedList(r.lx, start)
           [] OTHER -> ListArm(SkipWhitespace(r.lx), start, Append(exprs, r.node))
    ELSE IF peek(lx) = <<")">>
         THEN Some(next(lx), SExprExpr(exprs, start))
         ELSE UnclosedList(next(lx), start)

\* results of parse: Ok(nodes) or Err(ParseError{kind, pos})
ParseOk(nodes) == [kind |-> "Ok", nodes |-> nodes, err |-> NoError, pos |-> NoPos]
ParseErr(err, at) == [kind |-> "Err", nodes |-> <<>>, err |-> err, pos |-> at]

\* Lexer::parse
RECURSIVE LexerParse(_, _)
LexerParse(lx, exprs) ==
    LET r == parse_next(lx) IN
    CASE r.kind = "Err" -> ParseErr(r.err, r.pos)
      [] r.kind = "None" -> ParseOk(exprs)
      [] OTHER -> LexerParse(r.lx, Append(exprs, r.node))

\* parser::parse
parse(code) == LexerParse(LexerFrom(code), <<>>)

(***************************************************************************)
(* typ.rs: type descriptors.  An integer or float width is the name of the *)
(* IntType / FloatType variant.                                            *)
(***************************************************************************)
TypeNone == [k |-> "None"]
TypeNever == [k |-> "Never"]
TypeUInt(w) == [k |-> "UInt", w |-> w]
TypeInt(w) == [k |-> "Int", w |-> w]
TypeFloat(w) == [k |-> "Float", w |-> w]
TypeArray(typ, size) == [k |-> "Array", typ |-> typ, size |-> size]

\* Type::default()
TypeDefault == TypeNone

\* the variants of IntType and of FloatType
IntTypes == {"Size", "S8", "S16", "S32", "S64"}
FloatTypes == {"S32", "S64"}

\* the types that are not arrays
ScalarTypes ==
    {TypeNone, TypeNever}
    \cup {TypeUInt(w) : w \in IntTypes}
    \cup {TypeInt(w) : w \in IntTypes}
    \cup {TypeFloat(w) : w \in FloatTypes}

\* Option<usize>, the count of an array type
Counts == {<<>>} \cup {<<n>> : n \in 0..MaxCount}

\* the types whose arrays are nested at most d deep
RECURSIVE TypesOfDepth(_)
TypesOfDepth(d) ==
    IF d = 0 THEN ScalarTypes
    ELSE LET inner == TypesOfDepth(d - 1)
         IN  inner \cup {TypeArray(typ, size) : typ \in inner, size \in Counts}

(***************************************************************************)
(* code.rs: register widths, registers, operands, instructions             *)
(***************************************************************************)
\* mutant of RegisterSize_typ: the platform word is 64 bits wide
RECURSIVE RegisterSizeWord64(_)
RegisterSizeWord64(typ) ==
    CASE typ.k \in {"UInt", "Int"} -> IF typ.w = "Size" THEN <<"S64">> ELSE <<typ.w>>
      [] typ.k = "Float" -> <<typ.w>>
      [] typ.k = "Array" -> RegisterSizeWord64(typ.typ)
      [] OTHER -> <<>>

\* mutant of RegisterSize_typ: None is 32 bits wide
RECURSIVE RegisterSizeNone32(_)
RegisterSizeNone32(typ) ==
    CASE typ.k \in {"UInt", "Int"} -> IF typ.w = "Size" THEN <<"S32">> ELSE <<typ.w>>
      [] typ.k = "Float" -> <<typ.w>>
      [] typ.k = "Array" -> RegisterSizeNone32(typ.typ)
      [] typ.k = "None" -> <<"S32">>
      [] OTHER -> <<>>

\* RegisterSize::typ: Some(width) or None
RECURSIVE RegisterSize_typ(_)
RegisterSize_typ(typ) ==
    CASE typ.k \in {"UInt", "Int"} ->
            (CASE typ.w = "Size" -> <<"S32">>
               [] typ.w = "S8" -> <<"S8">>
               [] typ.w = "S16" -> <<"S16">>
               [] typ.w = "S32" -> <<"S32">>
               [] typ.w = "S64" -> <<"S64">>)
      [] typ.k = "Float" ->
            (CASE typ.w = "S32" -> <<"S32">>
               [] typ.w = "S64" -> <<"S64">>)
      [] typ.k = "Array" -> RegisterSize_typ(typ.typ)
      [] OTHER -> <<>>

\* RegisterSize::bytes
bytes(size) ==
    CASE size = "S64" -> 8
      [] size = "S32" -> 4
      [] size = "S16" -> 2
      [] size = "S8" -> 1

Register(name, size) == [name |-> name, size |-> size]

\* the variants of RegisterName and of RegisterSize
LegacyNames == {"A", "C", "D", "B"}
PointerNames == {"SP", "BP", "SI", "DI"}
NumberedNames == {"R8", "R9", "R10", "R11", "R12", "R13", "R14", "R15"}
RegisterNames == LegacyNames \cup PointerNames \cup NumberedNames
RegisterSizes == {"S64", "S32", "S16", "S8"}

\* impl Display for RegisterName
RegisterNameDisplay(name) ==
    CASE name = "A" -> <<"a">>
      [] name = "C" -> <<"c">>
      [] name = "D" -> <<"d">>
      [] name = "B" -> <<"b">>
      [] name = "SP" -> <<"s", "p">>
      [] name = "BP" -> <<"b", "p">>
      [] name = "SI" -> <<"s", "i">>
      [] name = "DI" -> <<"d", "i">>
      [] name = "R8" -> <<"r", "8">>
      [] name = "R9" -> <<"r", "9">>
      [] name = "R10" -> <<"r", "1", "0">>
      [] name = "R11" -> <<"r", "1", "1">>
      [] name = "R12" -> <<"r", "1", "2">>
      [] name = "R13" -> <<"r", "1", "3">>
      [] name = "R14" -> <<"r", "1", "4">>
      [] name = "R15" -> <<"r", "1", "5">>

\* impl Display for Register
RegisterDisplay(register) ==
    LET name == RegisterNameDisplay(register.name)
        size == register.size
    IN  CASE register.name \in LegacyNames ->
                (CASE size = "S64" -> <<"r">> \o name \o <<"x">>
                   [] size = "S32" -> <<"e">> \o name \o <<"x">>
                   [] size = "S16" -> name \o <<"x">>
                   [] size = "S8" -> name \o <<"l">>)
          [] register.name \in PointerNames ->
                (CASE size = "S64" -> <<"r">> \o name
                   [] size = "S32" -> <<"e">> \o name
                   [] size = "S16" -> name
                   [] size = "S8" -> name \o <<"l">>)
          [] register.name \in NumberedNames ->
                (CASE size = "S64" -> <<"r">> \o name
                   [] size = "S32" -> <<"r">> \o name \o <<"d">>
                   [] size = "S16" -> <<"r">> \o name \o <<"w">>
                   [] size = "S8" -> <<"r">> \o name \o <<"b">>)

\* the arms of Register::from_str: the text, the name, the width
RegisterTexts ==
    {<<<<"r", "a", "x">>, "A", "S64">>, <<<<"e", "a", "x">>, "A", "S32">>, <<<<"a", "x">>, "A", "S16">>, <<<<"a", "l">>, "A", "S8">>,
      <<<<"r", "b", "x">>, "B", "S64">>, <<<<"e", "b", "x">>, "B", "S32">>, <<<<"b", "x">>, "B", "S16">>, <<<<"b", "l">>, "B", "S8">>,
      <<<<"r", "c", "x">>, "C", "S64">>, <<<<"e", "c", "x">>, "C", "S32">>, <<<<"c", "x">>, "C", "S16">>, <<<<"c", "l">>, "C", "S8">>,
      <<<<"r", "d", "x">>, "D", "S64">>, <<<<"e", "d", "x">>, "D", "S32">>, <<<<"d", "x">>, "D", "S16">>, <<<<"d", "l">>, "D", "S8">>,
      <<<<"r", "s", "p">>, "SP", "S64">>, <<<<"e", "s", "p">>, "SP", "S32">>, <<<<"s", "p">>, "SP", "S16">>, <<<<"s", "p", "l">>, "SP", "S8">>,
      <<<<"r", "b", "p">>, "BP", "S64">>, <<<<"e", "b", "p">>, "BP", "S32">>, <<<<"b", "p">>, "BP", "S16">>, <<<<"b", "p", "l">>, "BP", "S8">>,
      <<<<"r", "s", "i">>, "SI", "S64">>, <<<<"e", "s", "i">>, "SI", "S32">>, <<<<"s", "i">>, "SI", "S16">>, <<<<"s", "i", "l">>, "SI", "S8">>,
      <<<<"r", "d", "i">>, "DI", "S64">>, <<<<"e", "d", "i">>, "DI", "S32">>, <<<<"d", "i">>, "DI", "S16">>, <<<<"d", "i", "l">>, "DI", "S8">>,
      <<<<"r", "9">>, "R9", "S64">>, <<<<"r", "9", "d">>, "R9", "S32">>, <<<<"r", "9", "w">>, "R9", "S16">>, <<<<"r", "9", "b">>, "R9", "S8">>,
      <<<<"r", "1", "0">>, "R10", "S64">>, <<<<"r", "1", "0", "d">>, "R10", "S32">>, <<<<"r", "1", "0", "w">>, "R10", "S16">>, <<<<"r", "1", "0", "b">>, "R10", "S8">>,
      <<<<"r", "1", "1">>, "R11", "S64">>, <<<<"r", "1", "1", "d">>, "R11", "S32">>, <<<<"r", "1", "1", "w">>, "R11", "S16">>, <<<<"r", "1", "1", "b">>, "R11", "S8">>,
      <<<<"r", "1", "2">>, "R12", "S64">>, <<<<"r", "1", "2", "d">>, "R12", "S32">>, <<<<"r", "1", "2", "w">>, "R12", "S16">>, <<<<"r", "1", "2", "b">>, "R12", "S8">>,
      <<<<"r", "1", "3">>, "R13", "S64">>, <<<<"r", "1", "3", "d">>, "R13", "S32">>, <<<<"r", "1", "3", "w">>, "R13", "S16">>, <<<<"r", "1", "3", "b">>, "R13", "S8">>,
      <<<<"r", "1", "4">>, "R14", "S64">>, <<<<"r", "1", "4", "d">>, "R14", "S32">>, <<<<"r", "1", "4", "w">>, "R14", "S16">>, <<<<"r", "1", "4", "b">>, "R14", "S8">>,
      <<<<"r", "1", "5">>, "R15", "S64">>, <<<<"r", "1", "5", "d">>, "R15", "S32">>, <<<<"r", "1", "5", "w">>, "R15", "S16">>, <<<<"r", "1", "5", "b">>, "R15", "S8">>}

\* impl FromStr for Register: Ok(register) or Err(InvalidRegister)
Register_from_str(s) ==
    IF \E arm \in RegisterTexts : arm[1] = s
    THEN LET arm == CHOOSE arm \in RegisterTexts : arm[1] = s
         IN  <<Register(arm[2], arm[3])>>
    ELSE <<>>

DestinationRegister(register) == [k |-> "Register", register |-> register]
SourceRegister(register) == [k |-> "Register", register |-> register]
SourceInt(int) == [k |-> "Int", int |-> int]
SourceName(name) == [k |-> "Name", name |-> name]
SourceAmount(amount) == [k |-> "Amount", amount |-> amount]

Mov(dest, src) == [op |-> "Mov", dest |-> dest, src |-> src]
Push(src) == [op |-> "Push", src |-> src]
Pop(dest) == [op |-> "Pop", dest |-> dest]
Call(func) == [op |-> "Call", func |-> func]
Add(dest, src) == [op |-> "Add", dest |-> dest, src |-> src]
Leave == [op |-> "Leave"]
Ret == [op |-> "Ret"]

(***************************************************************************)
(* compiler.rs: Compiler, Frame, CompileError                              *)
(***************************************************************************)
\* Compiler::default()
CompilerDefault == [program |-> [functions |-> <<>>, externs |-> <<>>], frames |-> <<>>]

NotFound(word) == [kind |-> "NotFound", word |-> word]
ExpectedArgs(n) == [kind |-> "ExpectedArgs", n |-> n]
InvalidHead == [kind |-> "InvalidHead"]
InvalidType(typ) == [kind |-> "InvalidType", typ |-> typ]
InvalidTypeExpected(expected, got) ==
    [kind |-> "InvalidTypeExpected", expected |-> expected, got |-> got]
UnknownSize == [kind |-> "UnknownSize"]

\* results of compile: Ok(typ), Err(Located{value, pos}), or the panic of todo!();
\* each carries the compiler as the call left it
CompileOk(c, typ) == [c |-> c, kind |-> "Ok", typ |-> typ, err |-> NoError, pos |-> NoPos]
CompileErr(c, err, at) == [c |-> c, kind |-> "Err", typ |-> TypeNone, err |-> err, pos |-> at]
\* mutant of CompilePanic: the placeholder arms return an error
CompilePanicAsError(c) ==
    [c |-> c, kind |-> "Err", typ |-> TypeNone, err |-> NotFound(<<>>), pos |-> NoPos]

CompilePanic(c) == [c |-> c, kind |-> "Panic", typ |-> TypeNone, err |-> NoError, pos |-> NoPos]

\* Compiler::frame
frame(c) == c.frames[Len(c.frames)]

\* Compiler::write (Frame::write on the top frame)
write(c, instr) ==
    [c EXCEPT !.frames[Len(c.frames)].function.body = Append(@, instr)]

RECURSIVE WriteAll(_, _)
WriteAll(c, instrs) ==
    IF instrs = <<>> THEN c ELSE WriteAll(write(c, Head(instrs)), Tail(instrs))

\* Display of a usize
RECURSIVE ToDecimal(_)
ToDecimal(n) ==
    IF n < 10 THEN <<DigitChars[n + 1]>>
    ELSE Append(ToDecimal(n \div 10), DigitChars[(n % 10) + 1])

\* format!("{}_c{idx}", name) of Frame::new_string
ConstantName(name, idx) == name \o <<"_", "c">> \o ToDecimal(idx)

\* mutant of new_string: the index is taken after the string was pooled
NewStringIndexAfterPush(c, string) ==
    [c |-> [c EXCEPT !.frames[Len(c.frames)].function.strings = Append(@, string)],
     name |-> ConstantName(frame(c).function.name, Len(frame(c).function.strings) + 1)]

\* Compiler::new_string: the compiler after the call and the name returned
new_string(c, string) ==
    [c |-> [c EXCEPT !.frames[Len(c.frames)].function.strings = Append(@, string)],
     name |-> ConstantName(frame(c).function.name, Len(frame(c).function.strings))]

\* mutant of new_extern: the name is put in front of the list
NewExternInFront(c, name) == [c EXCEPT !.program.externs = <<name>> \o @]

\* Compiler::new_extern
new_extern(c, name) == [c EXCEPT !.program.externs = Append(@, name)]

\* the prologue push_frame writes
Prologue ==
    <<Push(SourceRegister(Register("BP", "S32"))),
      Mov(DestinationRegister(Register("BP", "S32")), SourceRegister(Register("SP", "S32")))>>

\* Compiler::push_frame
push_frame(c, name) ==
    WriteAll([c EXCEPT !.frames = Append(@,
                 [function |-> [name |-> name, registers |-> 0, return_type |-> TypeDefault,
                                body |-> <<>>, strings |-> <<>>],
                  scopes |-> <<[locals |-> {}, offset |-> 0]>>,
                  registers |-> 0])],
             Prologue)

\* mutant of Epilogue: ret is written before leave
EpilogueRetFirst(registers) ==
    (IF registers > 0
     THEN <<Add(DestinationRegister(Register("SP", "S32")), SourceAmount(registers))>>
     ELSE <<>>) \o <<Ret, Leave>>

\* the epilogue pop_frame writes for a frame that reserved `registers` bytes
Epilogue(registers) ==
    (IF registers > 0
     THEN <<Add(DestinationRegister(Register("SP", "S32")), SourceAmount(registers))>>
     ELSE <<>>) \o <<Leave, Ret>>

\* Compiler::pop_frame
pop_frame(c) ==
    LET done == WriteAll(c, Epilogue(frame(c).registers)) IN
    [done EXCEPT !.frames = SubSeq(@, 1, Len(@) - 1),
                 !.program.functions = Append(@, frame(done).function)]

\* the words that select a form
PlusWord == <<"+">>
ExternWord == <<"e", "x", "t", "e", "r", "n">>

\* mutant of SaveLeft: the left operand is saved at 64 bits
SaveLeftWide(size) == Push(SourceRegister(Register("A", "S64")))

\* "+" arm: the push that saves the left operand
SaveLeft(size) == Push(SourceRegister(Register("A", size)))

\* mutant of Combine: the saved left operand is popped before the right one
\* is moved to the scratch register
CombinePopFirst(size) ==
    <<Pop(DestinationRegister(Register("A", size))),
      Mov(DestinationRegister(Register("B", size)), SourceRegister(Register("A", size))),
      Add(DestinationRegister(Register("A", size)), SourceRegister(Register("B", size)))>>

\* "+" arm: the three instructions that combine the operands
Combine(size) ==
    <<Mov(DestinationRegister(Register("B", size)), SourceRegister(Register("A", size))),
      Pop(DestinationRegister(Register("A", size))),
      Add(DestinationRegister(Register("A", size)), SourceRegister(Register("B", size)))>>

\* call arm: the push of a scalar argument
PushArgument(size) == Push(SourceRegister(Register("A", size)))

\* mutant of CallAndCleanup: no adjustment when there is nothing to clean up
CallAndCleanupSkipZero(word, args) ==
    <<Call(word)>>
    \o (IF args > 0
        THEN <<Add(DestinationRegister(Register("SP", "S32")), SourceAmount(args))>>
        ELSE <<>>)

\* call arm: the call and the stack-pointer adjustment after the arguments
CallAndCleanup(word, args) ==
    <<Call(word),
      Add(DestinationRegister(Register("SP", "S32")), SourceAmount(args))>>

\* SExpr::Int arm
IntArm(c, int) ==
    CompileOk(write(c, Mov(DestinationRegister(Register("A", "S32")), SourceInt(int))),
              TypeInt("S32"))

\* char::len_utf8 of the characters of the model
len_utf8(c) == IF c = "é" THEN 2 ELSE 1

\* mutant of ByteLen: the number of characters
CharCount(string) == Len(string)

\* String::len: the length in bytes of the UTF-8 text
RECURSIVE ByteLen(_)
ByteLen(string) ==
    IF string = <<>> THEN 0 ELSE len_utf8(Head(string)) + ByteLen(Tail(string))

\* mutant of StringLiteralArm: the array type carries no count
StringLiteralArmUnsized(c, string) ==
    LET constant == new_string(c, string)
    IN  CompileOk(write(constant.c, Push(SourceName(constant.name))),
                  TypeArray(TypeUInt("S8"), <<>>))

\* SExpr::String arm
StringLiteralArm(c, string) ==
    LET size == ByteLen(string) + 1
        constant == new_string(c, string)
    IN  CompileOk(write(constant.c, Push(SourceName(constant.name))),
                  TypeArray(TypeUInt("S8"), <<size>>))

\* mutant of PlusArityOk: further operands are let through
PlusArityAtLeast(sexprs) == Len(sexprs) >= 2

\* "+" arm: the check of the number of operands
PlusArityOk(sexprs) == Len(sexprs) = 2

\* mutant of InvalidHeadArm: the error is positioned at the list
InvalidHeadAtList(c, head_pos, at) == CompileErr(c, InvalidHead, at)

\* the arm of a list whose head is no word; head_pos is the position of the
\* head, at that of the list
InvalidHeadArm(c, head_pos, at) == CompileErr(c, InvalidHead, head_pos)

\* mutant of SameType: the counts of two arrays are not compared
SameTypeUpToCount(left_typ, right_typ) ==
    IF left_typ.k = "Array" /\ right_typ.k = "Array"
    THEN left_typ.typ = right_typ.typ
    ELSE left_typ = right_typ

\* the derived PartialEq of Type, as the "+" arm compares the operands' types
SameType(left_typ, right_typ) == left_typ = right_typ

RECURSIVE compile(_, _), PlusArm(_, _, _), ExternLoop(_, _, _), CallLoop(_, _, _, _, _)

\* Compiler::compile
compile(sexpr, c) ==
    CASE sexpr.tag = "Expr" ->
            IF sexpr.items = <<>> THEN CompileOk(c, TypeDefault)
            ELSE LET head == Head(sexpr.items)
                     sexprs == Tail(sexpr.items)
                 IN  IF head.tag = "Word"
                     THEN CASE head.word = PlusWord -> PlusArm(c, sexprs, sexpr.pos)
                            [] head.word = ExternWord -> ExternLoop(c, sexprs, Len(sexprs))
                            [] OTHER -> CallLoop(c, head.word, sexprs, Len(sexprs), 0)
                     ELSE InvalidHeadArm(c, head.pos, sexpr.pos)
      [] sexpr.tag = "Word" -> CompilePanic(c)
      [] sexpr.tag = "Int" -> IntArm(c, sexpr.int)
      [] sexpr.tag = "Float" -> CompilePanic(c)
      [] sexpr.tag = "String" -> StringLiteralArm(c, sexpr.string)

\* Compiler::compile, "+" arm; at is the position of the list
PlusArm(c, sexprs, at) ==
    IF ~PlusArityOk(sexprs) THEN CompileErr(c, ExpectedArgs(2), at)
    ELSE LET left == sexprs[1]
             right == sexprs[2]
             l == compile(left, c)
         IN  IF l.kind # "Ok" THEN l
             ELSE IF RegisterSize_typ(l.typ) = <<>>
             THEN CompileErr(l.c, InvalidType(l.typ), left.pos)
             ELSE LET size == RegisterSize_typ(l.typ)[1]
                      r == compile(right, write(l.c, SaveLeft(size)))
                  IN  IF r.kind # "Ok" THEN r
                      ELSE IF ~SameType(l.typ, r.typ)
                      THEN CompileErr(r.c, InvalidTypeExpected(l.typ, r.typ), right.pos)
                      ELSE CompileOk(WriteAll(r.c, Combine(size)), l.typ)

\* Compiler::compile, "extern" arm: the loop over the reversed elements, the
\* next of which is sexprs[i]
ExternLoop(c, sexprs, i) ==
    IF i = 0 THEN CompileOk(c, TypeDefault)
    ELSE LET sexpr == sexprs[i] IN
         CASE sexpr.tag = "Word" -> ExternLoop(new_extern(c, sexpr.word), sexprs, i - 1)
           [] sexpr.tag = "String" -> ExternLoop(new_extern(c, sexpr.string), sexprs, i - 1)
           [] OTHER ->
                LET r == compile(sexpr, c) IN
                IF r.kind # "Ok" THEN r
                ELSE CompileErr(r.c, InvalidType(r.typ), sexpr.pos)

\* mutant of CallLoop: the arguments are compiled leftmost first, i of them
\* being left
RECURSIVE CallLoopLeftFirst(_, _, _, _, _)
CallLoopLeftFirst(c, word, sexprs, i, args) ==
    IF i = 0 THEN CompileOk(WriteAll(c, CallAndCleanup(word, args)), TypeNone)
    ELSE LET sexpr == sexprs[Len(sexprs) - i + 1]
             r == compile(sexpr, c)
         IN  IF r.kind # "Ok" THEN r
             ELSE IF r.typ.k = "Array"
             THEN IF r.typ.size = <<>>
                  THEN CompileErr(r.c, UnknownSize, sexpr.pos)
                  ELSE IF RegisterSize_typ(r.typ.typ) = <<>>
                  THEN CompileErr(r.c, InvalidType(r.typ.typ), sexpr.pos)
                  ELSE CallLoopLeftFirst(r.c, word, sexprs, i - 1,
                                args + bytes(RegisterSize_typ(r.typ.typ)[1]) * r.typ.size[1])
             ELSE IF RegisterSize_typ(r.typ) = <<>>
                  THEN CompileErr(r.c, InvalidType(r.typ), sexpr.pos)
                  ELSE CallLoopLeftFirst(write(r.c, PushArgument(RegisterSize_typ(r.typ)[1])),
                                word, sexprs, i - 1,
                                args + bytes(RegisterSize_typ(r.typ)[1]))

\* Compiler::compile, call arm: the loop over the reversed arguments, the next
\* of which is sexprs[i], with args the byte total so far; then the call
CallLoop(c, word, sexprs, i, args) ==
    IF i = 0 THEN CompileOk(WriteAll(c, CallAndCleanup(word, args)), TypeNone)
    ELSE LET sexpr == sexprs[i]
             r == compile(sexpr, c)
         IN  IF r.kind # "Ok" THEN r
             ELSE IF r.typ.k = "Array"
             THEN IF r.typ.size = <<>>
                  THEN CompileErr(r.c, UnknownSize, sexpr.pos)
                  ELSE IF RegisterSize_typ(r.typ.typ) = <<>>
                  THEN CompileErr(r.c, InvalidType(r.typ.typ), sexpr.pos)
                  ELSE CallLoop(r.c, word, sexprs, i - 1,
                                args + bytes(RegisterSize_typ(r.typ.typ)[1]) * r.typ.size[1])
             ELSE IF RegisterSize_typ(r.typ) = <<>>
                  THEN CompileErr(r.c, InvalidType(r.typ), sexpr.pos)
                  ELSE CallLoop(write(r.c, PushArgument(RegisterSize_typ(r.typ)[1])),
                                word, sexprs, i - 1,
                                args + bytes(RegisterSize_typ(r.typ)[1]))

(***************************************************************************)
(* parser.rs: the textual form of a node, impl Display for Located<SExpr>   *)
(***************************************************************************)
\* char::escape_debug as <str as Debug>::fmt applies it
EscapeDebug(c) ==
    CASE c = "\t" -> <<"\\", "t">>
      [] c = "\r" -> <<"\\", "r">>
      [] c = "\n" -> <<"\\", "n">>
      [] c = "\\" -> <<"\\", "\\">>
      [] c = "\"" -> <<"\\", "\"">>
      [] c = "\f" -> <<"\\", "u", "{", "c", "}">>
      [] OTHER -> <<c>>

RECURSIVE EscapeAll(_)
EscapeAll(string) ==
    IF string = <<>> THEN <<>> ELSE EscapeDebug(Head(string)) \o EscapeAll(Tail(string))

\* {string:?}
StringDebug(string) == <<"\"">> \o EscapeAll(string) \o <<"\"">>

\* {int:?} of an i32 that is not negative
IntDebug(int) == ToDecimal(int)

RECURSIVE StripLeadingZeros(_)
StripLeadingZeros(digits) ==
    IF digits # <<>> /\ digits[1] = "0" THEN StripLeadingZeros(Tail(digits)) ELSE digits

\* the exponent notation of the digits d1 d2 ... and the exponent text
Exponential(digits, exponent) ==
    <<digits[1]>> \o (IF Len(digits) > 1 THEN <<".">> \o Tail(digits) ELSE <<>>)
                  \o <<"e">> \o exponent

\* {float:?} of an f32 that is not negative: decimal notation for 0 and for
\* values from 1e-4 up to 1e16, exponent notation for the others
FloatDebug(float) ==
    LET whole == ToDecimal(float.whole)
        zeros == Len(float.fraction) - Len(StripLeadingZeros(float.fraction))
    IN  CASE float.whole = 0 /\ float.fraction # <<>> /\ zeros >= 4 ->
                Exponential(StripLeadingZeros(float.fraction), <<"-">> \o ToDecimal(zeros + 1))
          [] Len(whole) > 16 ->
                Exponential(StripTrailingZeros(whole \o float.fraction), ToDecimal(Len(whole) - 1))
          [] OTHER ->
                whole \o <<".">> \o (IF float.fraction = <<>> THEN <<"0">> ELSE float.fraction)

RECURSIVE Display(_), DisplayAll(_)

\* impl Display for Located<SExpr>
Display(sexpr) ==
    CASE sexpr.tag = "Expr" -> <<"(">> \o DisplayAll(sexpr.items) \o <<")">>
      [] sexpr.tag = "Word" -> sexpr.word
      [] sexpr.tag = "Int" -> IntDebug(sexpr.int)
      [] sexpr.tag = "Float" -> FloatDebug(sexpr.float)
      [] sexpr.tag = "String" -> StringDebug(sexpr.string)

\* the elements' texts joined by " "
DisplayAll(sexprs) ==
    IF sexprs = <<>> THEN <<>>
    ELSE IF Len(sexprs) = 1 THEN Display(sexprs[1])
    ELSE Display(sexprs[1]) \o <<" ">> \o DisplayAll(Tail(sexprs))

(***************************************************************************)
(* The program as a state machine (main.rs): a source text is parsed; the  *)
(* free function compile_program makes a fresh Compiler and runs           *)
(* Compiler::compile_program on the nodes: push_frame, compile of each     *)
(* node in order, pop_frame.                                               *)
(*   text      the source text                                             *)
(*   parsed    the result of parse, NotParsed before it ran                *)
(*   pc        "start", "parsed", "parse_error", "compiling", "returned",  *)
(*             "panicked"                                                  *)
(*   compiler  the Compiler                                                *)
(*   todo      the nodes compile_program has still to compile              *)
(*   result    what compile_program returned                               *)
(*   last      the latest call of compile by compile_program: its node,    *)
(*             the compiler before it, and its result                      *)
(*   calls     the number of calls of compile_program made on the Compiler *)
(*   entry     the Compiler when the latest call of compile_program began  *)
(*   arg, out  the argument and the result of a function of typ.rs or      *)
(*             code.rs applied on its own                                  *)
(***************************************************************************)
VARIABLES text, parsed, pc, compiler, todo, result, last, calls, entry, arg, out

vars == <<text, parsed, pc, compiler, todo, result, last, calls, entry, arg, out>>

\* no argument given, no result computed
Idle == [k |-> "idle"]

NotParsed == [kind |-> "NotParsed", nodes |-> <<>>, err |-> NoError, pos |-> NoPos]
NoResult == [kind |-> "none", typ |-> TypeNone, err |-> NoError, pos |-> NoPos]
NoCall == [node |-> NoNode, before |-> CompilerDefault, ret |-> CompilePanic(CompilerDefault),
           made |-> FALSE]

MainName == <<"m", "a", "i", "n">>

\* main: parse(&code)
RunParse ==
    /\ pc = "start"
    /\ parsed' = parse(text)
    /\ pc' = IF parsed'.kind = "Ok" THEN "parsed" ELSE "parse_error"
    /\ UNCHANGED <<text, compiler, todo, result, last, calls, entry, arg, out>>

\* compile_program: Compiler::default(), then push_frame("main")
PushFrame ==
    /\ pc = "parsed"
    /\ compiler' = push_frame(CompilerDefault, MainName)
    /\ todo' = parsed.nodes
    /\ pc' = "compiling"
    /\ calls' = calls + 1
    /\ entry' = CompilerDefault
    /\ UNCHANGED <<text, parsed, result, last, arg, out>>

\* compile_program: one turn of the loop, self.compile(sexpr)?
CompileNode ==
    /\ pc = "compiling"
    /\ todo # <<>>
    /\ LET r == compile(Head(todo), compiler) IN
       /\ last' = [node |-> Head(todo), before |-> compiler, ret |-> r, made |-> TRUE]
       /\ compiler' = r.c
       /\ todo' = Tail(todo)
       /\ pc' = CASE r.kind = "Ok" -> "compiling"
                  [] r.kind = "Err" -> "returned"
                  [] OTHER -> "panicked"
       /\ result' = IF r.kind = "Err"
                    THEN [kind |-> "Err", typ |-> TypeNone, err |-> r.err, pos |-> r.pos]
                    ELSE result
    /\ UNCHANGED <<text, parsed, calls, entry, arg, out>>

\* compile_program: pop_frame, Ok(Type::default())
PopFrame ==
    /\ pc = "compiling"
    /\ todo = <<>>
    /\ compiler' = pop_frame(compiler)
    /\ result' = [kind |-> "Ok", typ |-> TypeDefault, err |-> NoError, pos |-> NoPos]
    /\ pc' = "returned"
    /\ UNCHANGED <<text, parsed, todo, last, calls, entry, arg, out>>

(***************************************************************************)
(* Source texts.                                                           *)
(***************************************************************************)
RECURSIVE Join(_, _)
Join(texts, sep) ==
    IF texts = <<>> THEN <<>>
    ELSE IF Len(texts) = 1 THEN texts[1]
    ELSE texts[1] \o <<sep>> \o Join(Tail(texts), sep)

ListText(elems) == <<"(">> \o Join(elems, " ") \o <<")">>

StrA == <<"\"", "a", "\"">>
StrB == <<"\"", "b", "\"">>
StrBC == <<"\"", "b", "c", "\"">>
StrE == <<"\"", "é", "\"">>
One == <<"1">>
Two == <<"2">>
OneAndHalf == <<"1", ".", "5">>
WordF == <<"f">>
WordX == <<"x">>

Heads == {PlusWord, ExternWord, WordF}

\* the atoms of flat lists
Atoms == Heads \cup {One, Two, StrA, WordX, OneAndHalf}

\* the atoms after the head of a list nested in another list
InnerAtoms == {One, StrA, WordX}

\* the lists nested in another list: the empty list, and a head with up to
\* MaxInnerArgs atoms
InnerLists ==
    {ListText(<<>>)}
    \cup {ListText(<<h>> \o e) : h \in {PlusWord, ExternWord, WordF, One},
                                 e \in UNION {[1..k -> InnerAtoms] : k \in 0..MaxInnerArgs}}

Operands == InnerLists \cup {One, Two, StrA, StrB, StrBC, StrE, OneAndHalf}

\* the forms of the programs of several top-level nodes
ShallowForms ==
    {ListText(<<h>> \o e) : h \in Heads \cup {One},
                            e \in {<<>>, <<One>>, <<StrA>>, <<WordF>>}}
    \cup {ListText(<<>>), ListText(<<PlusWord, One, Two>>), ListText(<<PlusWord, StrA, StrB>>),
          ListText(<<ExternWord, WordF, StrA>>), ListText(<<ExternWord, StrA, StrB>>),
          ListText(<<WordF, StrA, StrBC>>),
          One, StrA, StrBC, WordX}

\* the source texts given to the compiler: a single atom; a flat list of up to
\* MaxArgs + 1 atoms; a list of a head and one or two operands; a list whose
\* head is a list; up to MaxNodes shallow forms, one per line
IsProgramText(t) ==
    \/ t \in {One, StrA, StrBC, StrE, WordX, PlusWord, OneAndHalf}
    \/ \E k \in 0..(MaxArgs + 1) : \E e \in [1..k -> Atoms] : t = ListText(e)
    \/ \E h \in Heads, a \in Operands : t = ListText(<<h, a>>)
    \/ \E h \in Heads, a \in Operands, b \in Operands : t = ListText(<<h, a, b>>)
    \/ \E h \in InnerLists, a \in Operands : t = ListText(<<h, a>>)
    \/ \E k \in 0..MaxNodes : \E p \in [1..k -> ShallowForms] : t = Join(p, "\n")

Init ==
    /\ IsProgramText(text)
    /\ parsed = NotParsed
    /\ pc = "start"
    /\ compiler = CompilerDefault
    /\ todo = <<>>
    /\ result = NoResult
    /\ last = NoCall
    /\ calls = 0
    /\ entry = CompilerDefault
    /\ arg = Idle
    /\ out = Idle

Next == RunParse \/ PushFrame \/ CompileNode \/ PopFrame

Spec == Init /\ [][Next]_vars

(***************************************************************************)
(* One Compiler used for several programs: Compiler::compile_program is    *)
(* called again, with the nodes of another text, once it has returned.     *)
(***************************************************************************)
\* the texts of the programs: nothing, or one shallow form
ReuseTexts == {<<>>} \cup ShallowForms

InitReuse ==
    /\ text \in ReuseTexts
    /\ parsed = NotParsed
    /\ pc = "start"
    /\ compiler = CompilerDefault
    /\ todo = <<>>
    /\ result = NoResult
    /\ last = NoCall
    /\ calls = 0
    /\ entry = CompilerDefault
    /\ arg = Idle
    /\ out = Idle

\* Compiler::compile_program on the same Compiler, after it returned Ok or
\* Err: the next text is parsed and push_frame("main") begins the call
CompileProgramAgain ==
    /\ pc = "returned"
    /\ calls < MaxCalls
    /\ \E t \in ReuseTexts :
          /\ parse(t).kind = "Ok"
          /\ text' = t
          /\ parsed' = parse(t)
          /\ todo' = parse(t).nodes
    /\ entry' = compiler
    /\ compiler' = push_frame(compiler, MainName)
    /\ result' = NoResult
    /\ pc' = "compiling"
    /\ calls' = calls + 1
    /\ UNCHANGED <<last, arg, out>>

NextReuse == RunParse \/ PushFrame \/ CompileNode \/ PopFrame \/ CompileProgramAgain

SpecReuse == InitReuse /\ [][NextReuse]_vars

(***************************************************************************)
(* The parser alone, on every text over a small alphabet.                  *)
(***************************************************************************)
Alphabet == {"(", ")", "\"", " ", "\n", "a", "1", "."}

InitParse ==
    /\ \E n \in 0..MaxTextLen : text \in [1..n -> Alphabet]
    /\ parsed = NotParsed
    /\ pc = "start"
    /\ compiler = CompilerDefault
    /\ todo = <<>>
    /\ result = NoResult
    /\ last = NoCall
    /\ calls = 0
    /\ entry = CompilerDefault
    /\ arg = Idle
    /\ out = Idle

NextParse == RunParse

SpecParse == InitParse /\ [][NextParse]_vars

(***************************************************************************)
(* RegisterSize::typ alone, on every type descriptor of a bounded depth.   *)
(***************************************************************************)
InitTypes ==
    /\ text = <<>>
    /\ parsed = NotParsed
    /\ pc = "start"
    /\ compiler = CompilerDefault
    /\ todo = <<>>
    /\ result = NoResult
    /\ last = NoCall
    /\ calls = 0
    /\ entry = CompilerDefault
    /\ arg \in TypesOfDepth(MaxDepth)
    /\ out = Idle

\* RegisterSize::typ(&arg)
RegisterSizeTyp ==
    /\ out = Idle
    /\ out' = [k |-> "size", size |-> RegisterSize_typ(arg)]
    /\ UNCHANGED <<text, parsed, pc, compiler, todo, result, last, calls, entry, arg>>

NextTypes == RegisterSizeTyp

SpecTypes == InitTypes /\ [][NextTypes]_vars

(***************************************************************************)
(* The rendering of a register alone, on every name at every width.        *)
(***************************************************************************)
InitRegisters ==
    /\ text = <<>>
    /\ parsed = NotParsed
    /\ pc = "start"
    /\ compiler = CompilerDefault
    /\ todo = <<>>
    /\ result = NoResult
    /\ last = NoCall
    /\ calls = 0
    /\ entry = CompilerDefault
    /\ \E name \in RegisterNames, size \in RegisterSizes : arg = Register(name, size)
    /\ out = Idle

\* arg.to_string()
RenderRegister ==
    /\ out = Idle
    /\ out' = [k |-> "text", text |-> RegisterDisplay(arg)]
    /\ UNCHANGED <<text, parsed, pc, compiler, todo, result, last, calls, entry, arg>>

\* Register::from_str of the rendered text
ParseRendered ==
    /\ out # Idle
    /\ out.k = "text"
    /\ out' = [k |-> "parsed", text |-> out.text, register |-> Register_from_str(out.text)]
    /\ UNCHANGED <<text, parsed, pc, compiler, todo, result, last, calls, entry, arg>>

NextRegisters == RenderRegister \/ ParseRendered

SpecRegisters == InitRegisters /\ [][NextRegisters]_vars

(***************************************************************************)
(* Vocabulary of the properties.                                           *)
(***************************************************************************)
Body(c) == frame(c).function.body

\* the instructions a step appended to the current body, from c0 to c1
Appended(c0, c1) == SubSeq(Body(c1), Len(Body(c0)) + 1, Len(Body(c1)))

\* the instructions compile appends for sexpr when the compiler is c
Emitted(sexpr, c) == Appended(c, compile(sexpr, c).c)

\* a list of the head word and n further elements
IsForm(sexpr, word, n) ==
    /\ sexpr.tag = "Expr"
    /\ Len(sexpr.items) = n + 1
    /\ sexpr.items[1].tag = "Word"
    /\ sexpr.items[1].word = word

IsFormOf(sexpr, word) ==
    /\ sexpr.tag = "Expr"
    /\ sexpr.items # <<>>
    /\ sexpr.items[1].tag = "Word"
    /\ sexpr.items[1].word = word

\* a list whose head is a word other than + and extern
IsCall(sexpr) ==
    /\ sexpr.tag = "Expr"
    /\ sexpr.items # <<>>
    /\ sexpr.items[1].tag = "Word"
    /\ sexpr.items[1].word \notin {<<"+">>, <<"e", "x", "t", "e", "r", "n">>}

RegA(w) == [name |-> "A", size |-> w]
RegB(w) == [name |-> "B", size |-> w]
StackPointer32 == [name |-> "SP", size |-> "S32"]
BasePointer32 == [name |-> "BP", size |-> "S32"]
Reg(r) == [k |-> "Register", register |-> r]

WidthBytes(w) == CASE w = "S64" -> 8 [] w = "S32" -> 4 [] w = "S16" -> 2 [] w = "S8" -> 1

(***************************************************************************)
(* C1.  For a list (+ L R) whose operands compile without error to the     *)
(* same type T of register width w, compile returns T and appends exactly  *)
(* the instructions of L, push A@w, the instructions of R, mov B@w <- A@w, *)
(* pop A@w, add A@w, B@w; (+ 1 2) returns the signed 32-bit integer and    *)
(* appends mov eax,$1; push eax; mov eax,$2; mov ebx,eax; pop eax;         *)
(* add eax,ebx.                                                            *)
(***************************************************************************)
C1_PlusSequence ==
    (last.made /\ IsForm(last.node, <<"+">>, 2)) =>
        LET L == last.node.items[2]
            R == last.node.items[3]
            l == compile(L, last.before)
            w == RegisterSize_typ(l.typ)
        IN  /\ (l.kind = "Ok" /\ w # <<>>) =>
                  LET c1 == write(l.c, [op |-> "Push", src |-> Reg(RegA(w[1]))])
                      r == compile(R, c1)
                  IN  (r.kind = "Ok" /\ r.typ = l.typ) =>
                         /\ last.ret.kind = "Ok"
                         /\ last.ret.typ = l.typ
                         /\ Body(last.ret.c) =
                               Body(last.before)
                               \o Emitted(L, last.before)
                               \o <<[op |-> "Push", src |-> Reg(RegA(w[1]))]>>
                               \o Emitted(R, c1)
                               \o <<[op |-> "Mov", dest |-> Reg(RegB(w[1])), src |-> Reg(RegA(w[1]))],
                                    [op |-> "Pop", dest |-> Reg(RegA(w[1]))],
                                    [op |-> "Add", dest |-> Reg(RegA(w[1])), src |-> Reg(RegB(w[1]))]>>
            /\ (L.tag = "Int" /\ L.int = 1 /\ R.tag = "Int" /\ R.int = 2) =>
                  /\ last.ret.kind = "Ok"
                  /\ last.ret.typ = [k |-> "Int", w |-> "S32"]
                  /\ Appended(last.before, last.ret.c) =
                        <<[op |-> "Mov", dest |-> Reg(RegA("S32")), src |-> [k |-> "Int", int |-> 1]],
                          [op |-> "Push", src |-> Reg(RegA("S32"))],
                          [op |-> "Mov", dest |-> Reg(RegA("S32")), src |-> [k |-> "Int", int |-> 2]],
                          [op |-> "Mov", dest |-> Reg(RegB("S32")), src |-> Reg(RegA("S32"))],
                          [op |-> "Pop", dest |-> Reg(RegA("S32"))],
                          [op |-> "Add", dest |-> Reg(RegA("S32")), src |-> Reg(RegB("S32"))]>>

\* a (+ L R) with a nested list as left operand was compiled without error
C1_Witness ==
    /\ last.made
    /\ IsForm(last.node, <<"+">>, 2)
    /\ last.node.items[2].tag = "Expr"
    /\ last.ret.kind = "Ok"

(***************************************************************************)
(* C2.  For a call (f a1 ... an), n >= 0, whose arguments all compile to   *)
(* representable types: the arguments are compiled rightmost first, each   *)
(* non-array argument's instructions are followed by push A at its width,  *)
(* then exactly call f and add SP@32, Amount(total) are appended, total    *)
(* being the sum of the arguments' byte widths (element width x count for  *)
(* an array), also when total is 0; the result type is None.               *)
(***************************************************************************)
\* the arguments i, i-1, ..., 1 of a call, compiled in that order from c: the
\* code the claim expects, the byte total, and whether every argument compiles
\* to a representable type
RECURSIVE C2_Arguments(_, _, _)
C2_Arguments(args, i, c) ==
    IF i = 0 THEN [ok |-> TRUE, code |-> <<>>, total |-> 0]
    ELSE LET r == compile(args[i], c)
             w == RegisterSize_typ(r.typ)
         IN  IF r.kind # "Ok" \/ w = <<>> \/ (r.typ.k = "Array" /\ r.typ.size = <<>>)
             THEN [ok |-> FALSE, code |-> <<>>, total |-> 0]
             ELSE LET push == IF r.typ.k = "Array" THEN <<>>
                              ELSE <<[op |-> "Push", src |-> Reg(RegA(w[1]))]>>
                      width == IF r.typ.k = "Array"
                               THEN WidthBytes(RegisterSize_typ(r.typ.typ)[1]) * r.typ.size[1]
                               ELSE WidthBytes(w[1])
                      rest == C2_Arguments(args, i - 1, WriteAll(r.c, push))
                  IN  [ok |-> rest.ok,
                       code |-> Appended(c, r.c) \o push \o rest.code,
                       total |-> width + rest.total]

C2_CallSequence ==
    (last.made /\ IsCall(last.node)) =>
        LET args == Tail(last.node.items)
            want == C2_Arguments(args, Len(args), last.before)
        IN  want.ok =>
               /\ last.ret.kind = "Ok"
               /\ last.ret.typ = [k |-> "None"]
               /\ Body(last.ret.c) =
                     Body(last.before)
                     \o want.code
                     \o <<[op |-> "Call", func |-> last.node.items[1].word],
                          [op |-> "Add", dest |-> Reg(StackPointer32),
                           src |-> [k |-> "Amount", amount |-> want.total]]>>

\* a call with an array argument and a scalar argument was compiled
C2_Witness ==
    /\ last.made
    /\ IsCall(last.node)
    /\ Len(last.node.items) >= 3
    /\ \E i \in 2..Len(last.node.items) : last.node.items[i].tag = "String"
    /\ \E i \in 2..Len(last.node.items) : last.node.items[i].tag # "String"
    /\ last.ret.kind = "Ok"

(***************************************************************************)
(* C3.  For every successfully compiled call, the amount added to the      *)
(* stack pointer after the call equals the number of bytes the pushes      *)
(* emitted for the call's arguments left on the stack: w/8 bytes for a     *)
(* register of width w, one 4-byte address for a string constant's name.   *)
(***************************************************************************)
\* the size of an address under the 32-bit convention of the prologue
AddressBytes == 4

\* the bytes a sequence of instructions leaves on the stack
RECURSIVE StackBytes(_)
StackBytes(instrs) ==
    IF instrs = <<>> THEN 0
    ELSE LET i == Head(instrs) IN
         (CASE i.op = "Push" /\ i.src.k = "Register" -> WidthBytes(i.src.register.size)
            [] i.op = "Push" /\ i.src.k = "Name" -> AddressBytes
            [] i.op = "Pop" -> 0 - WidthBytes(i.dest.register.size)
            [] OTHER -> 0)
         + StackBytes(Tail(instrs))

C3_CleanupMatchesPushes ==
    (last.made /\ IsCall(last.node) /\ last.ret.kind = "Ok") =>
        LET code == Appended(last.before, last.ret.c)
            n == Len(code)
        IN  /\ n >= 2
            /\ code[n].op = "Add"
            /\ code[n].src.k = "Amount"
            /\ code[n].src.amount = StackBytes(SubSeq(code, 1, n - 2))

(***************************************************************************)
(* C4.  Compiling a string literal s while the current frame's function is *)
(* named F and pools k constants appends s to the pool at index k, appends *)
(* exactly push F_c<k>, changes nothing else, and returns the array of     *)
(* unsigned 8-bit of known size bytelen(s)+1.  Within a function the names *)
(* F_c0, F_c1, ... are pairwise distinct and a name's index is the         *)
(* constant's position in the pool.                                        *)
(***************************************************************************)
RECURSIVE Decimal(_)
Decimal(n) ==
    IF n < 10 THEN <<DigitChars[n + 1]>>
    ELSE Decimal(n \div 10) \o <<DigitChars[(n % 10) + 1]>>

\* the UTF-8 length of a text of the model: one byte per character, two for é
Utf8Bytes(string) == Len(string) + Cardinality({i \in DOMAIN string : string[i] = "é"})

SymbolOf(name, index) == name \o <<"_", "c">> \o Decimal(index)

IsNamePush(instr) == instr.op = "Push" /\ instr.src.k = "Name"

\* the pushes of constant names in a function are F_c0, F_c1, ... in order, one
\* per pooled constant
NamesFollowPool(function) ==
    LET pushes == SelectSeq(function.body, IsNamePush) IN
    /\ Len(pushes) = Len(function.strings)
    /\ \A i \in DOMAIN pushes : pushes[i].src.name = SymbolOf(function.name, i - 1)
    /\ \A i, j \in DOMAIN pushes : i # j => pushes[i].src.name # pushes[j].src.name

C4_StringLiteral ==
    /\ (last.made /\ last.node.tag = "String") =>
          LET s == last.node.string
              top == Len(last.before.frames)
              function == last.before.frames[top].function
              k == Len(function.strings)
          IN  /\ last.ret.kind = "Ok"
              /\ last.ret.typ = [k |-> "Array", typ |-> [k |-> "UInt", w |-> "S8"],
                                 size |-> <<Utf8Bytes(s) + 1>>]
              /\ last.ret.c =
                    [last.before EXCEPT
                        !.frames[top].function.strings = Append(@, s),
                        !.frames[top].function.body =
                            Append(@, [op |-> "Push",
                                       src |-> [k |-> "Name", name |-> SymbolOf(function.name, k)]])]
    /\ \A i \in DOMAIN compiler.frames : NamesFollowPool(compiler.frames[i].function)
    /\ \A i \in DOMAIN compiler.program.functions : NamesFollowPool(compiler.program.functions[i])

\* a top-level string literal was compiled when the pool already held a constant
C4_Witness ==
    /\ last.made
    /\ last.node.tag = "String"
    /\ Len(frame(last.before).function.strings) >= 1
    /\ last.ret.kind = "Ok"

(***************************************************************************)
(* C5.  For a list (extern n1 ... nk) of words and string literals,        *)
(* compile appends the names to the extern list in reverse source order,   *)
(* after the names already there, emits no instruction and returns None;   *)
(* (extern "a" "b") on a fresh compiler yields ["b", "a"]; over several    *)
(* extern forms the list is the concatenation, in form order, of each      *)
(* form's reversed names.                                                  *)
(***************************************************************************)
IsExternOfNames(sexpr) ==
    /\ IsFormOf(sexpr, <<"e", "x", "t", "e", "r", "n">>)
    /\ \A i \in 2..Len(sexpr.items) : sexpr.items[i].tag \in {"Word", "String"}

NameOf(sexpr) == IF sexpr.tag = "Word" THEN sexpr.word ELSE sexpr.string

RECURSIVE ReversedNames(_, _)
ReversedNames(items, i) ==
    IF i < 2 THEN <<>> ELSE <<NameOf(items[i])>> \o ReversedNames(items, i - 1)

RECURSIVE NamesOfForms(_)
NamesOfForms(nodes) ==
    IF nodes = <<>> THEN <<>>
    ELSE ReversedNames(Head(nodes).items, Len(Head(nodes).items)) \o NamesOfForms(Tail(nodes))

C5_ExternOrder ==
    /\ (last.made /\ IsExternOfNames(last.node)) =>
          /\ last.ret.kind = "Ok"
          /\ last.ret.typ = [k |-> "None"]
          /\ last.ret.c =
                [last.before EXCEPT
                    !.program.externs =
                        @ \o ReversedNames(last.node.items, Len(last.node.items))]
    /\ (pc = "returned" /\ result.kind = "Ok"
        /\ \A i \in DOMAIN parsed.nodes : IsExternOfNames(parsed.nodes[i])) =>
          compiler.program.externs = NamesOfForms(parsed.nodes)
    /\ (pc = "returned"
        /\ text = <<"(", "e", "x", "t", "e", "r", "n", " ", "\"", "a", "\"", " ", "\"", "b", "\"", ")">>) =>
          compiler.program.externs = <<(<<"b">>), (<<"a">>)>>

\* an extern form of two names was compiled when the extern list held a name
C5_Witness ==
    /\ last.made
    /\ IsExternOfNames(last.node)
    /\ Len(last.node.items) = 3
    /\ last.node.items[2] # last.node.items[3]
    /\ last.before.program.externs # <<>>
    /\ last.ret.kind = "Ok"

(***************************************************************************)
(* C6.  When compile_program succeeds, the program holds exactly one       *)
(* function, named main, whose body is push BP@32, mov BP@32 <- SP@32, the *)
(* instructions of each top-level node in source order, then (only if the  *)
(* frame's reserved-byte counter is greater than 0) add SP@32,             *)
(* Amount(counter), then leave, then ret; for no nodes the body is push,   *)
(* mov, leave, ret.                                                        *)
(***************************************************************************)
\* the instructions of the nodes compiled one after the other from c, and the
\* compiler after the last
RECURSIVE NodesInOrder(_, _)
NodesInOrder(nodes, c) ==
    IF nodes = <<>> THEN [code |-> <<>>, c |-> c]
    ELSE LET rest == NodesInOrder(Tail(nodes), compile(Head(nodes), c).c) IN
         [code |-> Emitted(Head(nodes), c) \o rest.code, c |-> rest.c]

PushBasePointer == [op |-> "Push", src |-> Reg(BasePointer32)]
MovBaseFromStack == [op |-> "Mov", dest |-> Reg(BasePointer32), src |-> Reg(StackPointer32)]

C6_MainBody ==
    (pc = "returned" /\ result.kind = "Ok") =>
        LET nodes == NodesInOrder(parsed.nodes, push_frame(CompilerDefault, <<"m", "a", "i", "n">>))
            counter == frame(nodes.c).registers
        IN  /\ Len(compiler.program.functions) = 1
            /\ compiler.program.functions[1].name = <<"m", "a", "i", "n">>
            /\ compiler.program.functions[1].body =
                  <<PushBasePointer, MovBaseFromStack>>
                  \o nodes.code
                  \o (IF counter > 0
                      THEN <<[op |-> "Add", dest |-> Reg(StackPointer32),
                              src |-> [k |-> "Amount", amount |-> counter]]>>
                      ELSE <<>>)
                  \o <<[op |-> "Leave"], [op |-> "Ret"]>>
            /\ parsed.nodes = <<>> =>
                  compiler.program.functions[1].body =
                      <<PushBasePointer, MovBaseFromStack, [op |-> "Leave"], [op |-> "Ret"]>>

\* compile_program succeeded on two top-level nodes that both emit instructions
C6_Witness ==
    /\ pc = "returned"
    /\ result.kind = "Ok"
    /\ Len(parsed.nodes) = 2
    /\ parsed.nodes[1].tag = "Expr"
    /\ parsed.nodes[1].items # <<>>
    /\ parsed.nodes[2].tag = "String"

(***************************************************************************)
(* C7.  For a list whose head is the word + and whose number of further    *)
(* elements is not 2, compile fails with ExpectedArgs(2) positioned at the *)
(* list, whatever the elements are.                                        *)
(***************************************************************************)
C7_PlusArity ==
    (last.made /\ IsFormOf(last.node, <<"+">>) /\ Len(last.node.items) # 3) =>
        /\ last.ret.kind = "Err"
        /\ last.ret.err = [kind |-> "ExpectedArgs", n |-> 2]
        /\ last.ret.pos = last.node.pos
        /\ pc = "returned"
        /\ result.kind = "Err"
        /\ result.err = [kind |-> "ExpectedArgs", n |-> 2]
        /\ result.pos = last.node.pos

\* a + with three or more further elements was refused
C7_Witness ==
    /\ last.made
    /\ IsFormOf(last.node, <<"+">>)
    /\ Len(last.node.items) >= 4
    /\ last.ret.kind = "Err"

(***************************************************************************)
(* C8.  For a non-empty list whose first element is not a word, compile    *)
(* fails with InvalidHead positioned at that element, not at the list, and *)
(* compiles no element; (1 2) fails at the position of 1.                  *)
(***************************************************************************)
C8_InvalidHead ==
    /\ (last.made /\ last.node.tag = "Expr" /\ last.node.items # <<>>
        /\ last.node.items[1].tag # "Word") =>
          /\ last.ret.kind = "Err"
          /\ last.ret.err = [kind |-> "InvalidHead"]
          /\ last.ret.pos = last.node.items[1].pos
          /\ last.ret.pos # last.node.pos
          /\ last.ret.c = last.before
    /\ (pc = "returned" /\ text = <<"(", "1", " ", "2", ")">>) =>
          /\ result.kind = "Err"
          /\ result.err = [kind |-> "InvalidHead"]
          /\ result.pos = [ln |-> 0, col |-> 1]

\* a list whose head is a list was refused
C8_Witness ==
    /\ last.made
    /\ last.node.tag = "Expr"
    /\ last.node.items # <<>>
    /\ last.node.items[1].tag = "Expr"
    /\ Len(last.node.items) >= 2
    /\ last.ret.kind = "Err"

(***************************************************************************)
(* Vocabulary of the properties of the parser: a scan of the text that     *)
(* tells only strings from the rest and counts parentheses.                *)
(***************************************************************************)
\* after the characters before index i: whether a string literal is open, and
\* the indices of the parentheses still open, innermost last
RECURSIVE ScanFrom(_, _, _, _)
ScanFrom(t, i, inString, open) ==
    IF i > Len(t) THEN [inString |-> inString, open |-> open]
    ELSE IF inString THEN ScanFrom(t, i + 1, t[i] # "\"", open)
    ELSE CASE t[i] = "\"" -> ScanFrom(t, i + 1, TRUE, open)
           [] t[i] = "(" -> ScanFrom(t, i + 1, FALSE, Append(open, i))
           [] t[i] = ")" /\ open # <<>> ->
                ScanFrom(t, i + 1, FALSE, SubSeq(open, 1, Len(open) - 1))
           [] OTHER -> ScanFrom(t, i + 1, FALSE, open)

Scan(t) == ScanFrom(t, 1, FALSE, <<>>)

\* the line and column of the character at index i of t
PositionOf(t, i) ==
    LET breaks == {j \in 1..(i - 1) : t[j] = "\n"}
        lineStart == IF breaks = {} THEN 0 ELSE CHOOSE j \in breaks : \A b \in breaks : b <= j
    IN  [ln |-> Cardinality(breaks), col |-> i - 1 - lineStart]

Closers(n) == [i \in 1..n |-> ")"]

(***************************************************************************)
(* C9.  When the text ends while a list is still open and no other parse   *)
(* error occurs first, parse fails with the unclosed-( error positioned at *)
(* the opening position of that list, the innermost one when several are   *)
(* open, also when only whitespace follows the last child.                 *)
(***************************************************************************)
C9_UnclosedList ==
    (pc # "start" /\ ~Scan(text).inString /\ Scan(text).open # <<>>) =>
        LET open == Scan(text).open
            innermost == PositionOf(text, open[Len(open)])
        IN  /\ parsed.kind = "Err"
            /\ parsed.err.kind \in {"Unclosed", "Unexpected", "ParseIntError"}
            /\ parsed.err.kind = "Unclosed" => (parsed.err.c = "(" /\ parsed.pos = innermost)
            \* no other error: the text parses once a word and the missing
            \* parentheses are added
            /\ parse(text \o <<"a">> \o Closers(Len(open))).kind = "Ok" =>
                  (parsed.err = [kind |-> "Unclosed", c |-> "("] /\ parsed.pos = innermost)

\* the input ended in whitespace with two lists open, the inner one not at the
\* start of the text
C9_Witness ==
    /\ pc # "start"
    /\ text # <<>>
    /\ text[Len(text)] \in {" ", "\n"}
    /\ Len(Scan(text).open) >= 2
    /\ parsed.kind = "Err"
    /\ parsed.err.kind = "Unclosed"
    /\ parsed.pos.col > 1

(***************************************************************************)
(* C10.  When a " opens a string literal and no further " occurs before    *)
(* the end of input, parse fails with the unclosed-string error and        *)
(* returns no nodes, also when the string is nested in lists: the string   *)
(* error is reported, not an unclosed-( error.                             *)
(***************************************************************************)
C10_UnclosedString ==
    (pc # "start" /\ Scan(text).inString) =>
        /\ parsed.kind = "Err"
        /\ parsed.nodes = <<>>
        /\ pc = "parse_error"
        /\ parsed.err.kind \in {"UnclosedString", "Unexpected", "ParseIntError"}
        \* the lexer reaches the quote: the text parses once the quote and the
        \* missing parentheses are added
        /\ parse(text \o <<"\"">> \o Closers(Len(Scan(text).open))).kind = "Ok" =>
              parsed.err = [kind |-> "UnclosedString"]

\* the input ended in a string literal nested in two lists
C10_Witness ==
    /\ pc # "start"
    /\ Scan(text).inString
    /\ Len(Scan(text).open) >= 2
    /\ parsed.kind = "Err"
    /\ parsed.err.kind = "UnclosedString"

(***************************************************************************)
(* Vocabulary of the properties of the parser: node structures, positions  *)
(* left out.                                                               *)
(***************************************************************************)
RECURSIVE Structure(_)
Structure(sexpr) ==
    IF sexpr.tag = "Expr"
    THEN [tag |-> "Expr", items |-> [i \in DOMAIN sexpr.items |-> Structure(sexpr.items[i])]]
    ELSE [f \in (DOMAIN sexpr) \ {"pos"} |-> sexpr[f]]

Structures(nodes) == [i \in DOMAIN nodes |-> Structure(nodes[i])]

\* what parse returns, positions left out: the structures, or that it failed
Outcome(r) == IF r.kind = "Ok" THEN [kind |-> "Ok", nodes |-> Structures(r.nodes)]
              ELSE [kind |-> "Err", nodes |-> <<>>]

\* the renderings of the nodes joined by a space
Rendered(nodes) == Join([i \in DOMAIN nodes |-> Display(nodes[i])], " ")

(***************************************************************************)
(* C11.  For every text that parses successfully, rendering each top-level *)
(* node, joining the renderings with whitespace and parsing the result     *)
(* again yields the same sequence of node structures, for all node kinds,  *)
(* string literals holding a backslash or a newline included.              *)
(***************************************************************************)
C11_RenderRoundTrip ==
    pc = "parsed" =>
        LET again == parse(Rendered(parsed.nodes))
        IN  /\ again.kind = "Ok"
            /\ Structures(again.nodes) = Structures(parsed.nodes)

(***************************************************************************)
(* C12.  Whitespace is insignificant: inserting an ASCII whitespace        *)
(* character at a token boundary outside a string literal (before the      *)
(* first token, after the last, next to whitespace or next to a            *)
(* parenthesis, between the ( and the ) of an empty list included) changes *)
(* neither whether parse succeeds nor the node structures it returns.      *)
(***************************************************************************)
\* t with the character c inserted after its first i characters
Insert(t, i, c) == SubSeq(t, 1, i) \o <<c>> \o SubSeq(t, i + 1, Len(t))

Separators == Whitespace \cup {"(", ")"}

\* after the first i characters of t: outside a string literal, and at an end
\* of the text or next to whitespace or a parenthesis
IsTokenBoundary(t, i) ==
    /\ ~Scan(SubSeq(t, 1, i)).inString
    /\ \/ i = 0
       \/ i = Len(t)
       \/ t[i] \in Separators
       \/ t[i + 1] \in Separators

C12_WhitespaceInsignificant ==
    pc # "start" =>
        \A i \in 0..Len(text), c \in {" ", "\n"} :
            IsTokenBoundary(text, i) => Outcome(parse(Insert(text, i, c))) = Outcome(parsed)

(***************************************************************************)
(* C13.  For a list (+ L R) in which L compiles to a type TL with a        *)
(* register width and R compiles without error to a type TR different from *)
(* TL (arrays of one element type and different counts, or TR = None,      *)
(* included), compile fails with InvalidTypeExpected{expected: TL, got:    *)
(* TR} positioned at R, and nothing is emitted after the instructions of   *)
(* R: no mov B <- A, no pop A, no add A, B.                                *)
(***************************************************************************)
C13_TypeMismatch ==
    (last.made /\ IsForm(last.node, <<"+">>, 2)) =>
        LET L == last.node.items[2]
            R == last.node.items[3]
            l == compile(L, last.before)
            w == RegisterSize_typ(l.typ)
        IN  (l.kind = "Ok" /\ w # <<>>) =>
               LET save == [op |-> "Push", src |-> Reg(RegA(w[1]))]
                   c1 == write(l.c, save)
                   r == compile(R, c1)
               IN  (r.kind = "Ok" /\ r.typ # l.typ) =>
                      /\ last.ret.kind = "Err"
                      /\ last.ret.err = [kind |-> "InvalidTypeExpected",
                                         expected |-> l.typ, got |-> r.typ]
                      /\ last.ret.pos = R.pos
                      /\ result.kind = "Err"
                      /\ result.err = last.ret.err
                      /\ result.pos = R.pos
                      /\ Appended(last.before, last.ret.c) =
                            Emitted(L, last.before) \o <<save>> \o Emitted(R, c1)

\* a + of two string literals of different lengths failed
C13_Witness ==
    /\ last.made
    /\ IsForm(last.node, <<"+">>, 2)
    /\ last.node.items[2].tag = "String"
    /\ last.node.items[3].tag = "String"
    /\ Len(last.node.items[2].string) # Len(last.node.items[3].string)
    /\ last.ret.kind = "Err"
    /\ last.ret.err.kind = "InvalidTypeExpected"

(***************************************************************************)
(* C14.  The type-to-register-width mapping: signed and unsigned integers  *)
(* of width 8/16/32/64 map to the register width of as many bits, the      *)
(* platform-word integer to 32 bits, floats of width 32/64 to 32/64 bits,  *)
(* an array to the width of its element type whatever its count, None and  *)
(* Never to no width; so an array of any nesting depth has a width exactly *)
(* when its innermost element type is neither None nor Never.              *)
(***************************************************************************)
RECURSIVE Innermost(_)
Innermost(typ) == IF typ.k = "Array" THEN Innermost(typ.typ) ELSE typ

\* the number of bits a width variant of a type names
BitsOf(w) == CASE w = "S8" -> 8 [] w = "S16" -> 16 [] w = "S32" -> 32 [] w = "S64" -> 64

WidthOfBits(n) == CASE n = 8 -> "S8" [] n = 16 -> "S16" [] n = 32 -> "S32" [] n = 64 -> "S64"

C14_TypeWidth ==
    (out # Idle /\ out.k = "size") =>
        LET element == Innermost(arg) IN
        /\ element.k \in {"None", "Never"} => out.size = <<>>
        /\ (element.k \in {"UInt", "Int"} /\ element.w = "Size") => out.size = <<WidthOfBits(32)>>
        /\ (element.k \in {"UInt", "Int"} /\ element.w # "Size") =>
              out.size = <<WidthOfBits(BitsOf(element.w))>>
        /\ element.k = "Float" => out.size = <<WidthOfBits(BitsOf(element.w))>>
        /\ out.size # <<>> => 8 * bytes(out.size[1]) = BitsOf(out.size[1])
        /\ arg.k = "Array" => (out.size # <<>> <=> element.k \notin {"None", "Never"})

\* the width of an array of arrays of platform-word integers was computed
C14_Witness ==
    /\ out # Idle
    /\ out.k = "size"
    /\ arg.k = "Array"
    /\ arg.typ.k = "Array"
    /\ arg.typ.typ = [k |-> "UInt", w |-> "Size"]
    /\ arg.size = <<>>
    /\ out.size = <<"S32">>

(***************************************************************************)
(* C15.  Register rendering, for each of the 16 names at each of the 4     *)
(* widths: A/B/C/D render as r<n>x, e<n>x, <n>x, <n>l at 64/32/16/8 bits;  *)
(* SP/BP/SI/DI as r<name> at 64 bits and <name>l at 8 bits; R8..R15 as the *)
(* letter r, the register number and a width suffix: r8..r15 at 64 bits    *)
(* and r<N>d, r<N>w, r<N>b at 32/16/8 bits (R10 at 16 bits is r10w).  The  *)
(* 64 renderings are pairwise distinct.                                    *)
(***************************************************************************)
LetterOf(name) ==
    CASE name = "A" -> "a" [] name = "B" -> "b" [] name = "C" -> "c" [] name = "D" -> "d"

PointerOf(name) ==
    CASE name = "SP" -> <<"s", "p">> [] name = "BP" -> <<"b", "p">>
      [] name = "SI" -> <<"s", "i">> [] name = "DI" -> <<"d", "i">>

NumberOf(name) ==
    CASE name = "R8" -> <<"8">> [] name = "R9" -> <<"9">>
      [] name = "R10" -> <<"1", "0">> [] name = "R11" -> <<"1", "1">>
      [] name = "R12" -> <<"1", "2">> [] name = "R13" -> <<"1", "3">>
      [] name = "R14" -> <<"1", "4">> [] name = "R15" -> <<"1", "5">>

SuffixOf(size) ==
    CASE size = "S64" -> <<>> [] size = "S32" -> <<"d">>
      [] size = "S16" -> <<"w">> [] size = "S8" -> <<"b">>

C15_RegisterRendering ==
    (out # Idle /\ out.k = "text") =>
        /\ arg.name \in {"A", "B", "C", "D"} =>
              out.text = CASE arg.size = "S64" -> <<"r", LetterOf(arg.name), "x">>
                           [] arg.size = "S32" -> <<"e", LetterOf(arg.name), "x">>
                           [] arg.size = "S16" -> <<LetterOf(arg.name), "x">>
                           [] arg.size = "S8" -> <<LetterOf(arg.name), "l">>
        /\ (arg.name \in {"SP", "BP", "SI", "DI"} /\ arg.size = "S64") =>
              out.text = <<"r">> \o PointerOf(arg.name)
        /\ (arg.name \in {"SP", "BP", "SI", "DI"} /\ arg.size = "S8") =>
              out.text = PointerOf(arg.name) \o <<"l">>
        /\ arg.name \in {"R8", "R9", "R10", "R11", "R12", "R13", "R14", "R15"} =>
              out.text = <<"r">> \o NumberOf(arg.name) \o SuffixOf(arg.size)
        /\ \A name \in RegisterNames, size \in RegisterSizes :
              Register(name, size) # arg => RegisterDisplay(Register(name, size)) # out.text

(***************************************************************************)
(* C16.  One push/pop pair brackets every compilation: whenever            *)
(* Compiler::compile_program returns, with a result or with an error,      *)
(* every frame it pushed has been popped: the frame stack is as deep as it *)
(* was before the call (empty for a fresh Compiler), after any sequence of *)
(* calls on the same Compiler.                                             *)
(***************************************************************************)
C16_FramesBalanced ==
    pc = "returned" =>
        /\ Len(compiler.frames) = Len(entry.frames)
        /\ calls = 1 => compiler.frames = <<>>

(***************************************************************************)
(* C17.  String-constant symbols never collide: in the program a Compiler  *)
(* holds after one or more successful calls of compile_program, the names  *)
(* <function-name>_c<index> of all pooled string constants of all          *)
(* functions are pairwise distinct, and no two functions of the program    *)
(* carry the same name.                                                    *)
(***************************************************************************)
\* every call made so far returned Ok: each one added its function to the
\* program and left no frame behind
AllCallsSucceeded ==
    /\ pc = "returned"
    /\ result.kind = "Ok"
    /\ calls >= 1
    /\ compiler.frames = <<>>
    /\ Len(compiler.program.functions) = calls

C17_NoNameCollision ==
    AllCallsSucceeded =>
        LET functions == compiler.program.functions
            constants == {<<f, i>> : f \in DOMAIN functions, i \in 0..MaxArgs}
            pooled == {p \in constants : p[2] < Len(functions[p[1]].strings)}
        IN  /\ \A f, g \in DOMAIN functions : f # g => functions[f].name # functions[g].name
            /\ \A p, q \in pooled :
                  p # q => SymbolOf(functions[p[1]].name, p[2]) # SymbolOf(functions[q[1]].name, q[2])

(***************************************************************************)
(* C18.  The identifier-not-found error is unreachable: compile_program    *)
(* never returns NotFound; every array type compile returns has element    *)
(* type unsigned 8-bit and a known count of at least 1, so UnknownSize is  *)
(* never returned either, and the only error kinds compile_program returns *)
(* are ExpectedArgs(2), InvalidHead, InvalidType and InvalidTypeExpected.  *)
(***************************************************************************)
\* a node and the nodes nested in it
RECURSIVE SubNodes(_)
SubNodes(sexpr) ==
    IF sexpr.tag = "Expr"
    THEN {sexpr} \cup UNION {SubNodes(sexpr.items[i]) : i \in DOMAIN sexpr.items}
    ELSE {sexpr}

ReturnedErrorKinds == {"ExpectedArgs", "InvalidHead", "InvalidType", "InvalidTypeExpected"}

C18_ReachableErrors ==
    /\ result.err.kind \notin {"NotFound", "UnknownSize"}
    /\ result.kind = "Err" =>
          /\ pc = "returned"
          /\ result.err.kind \in ReturnedErrorKinds
          /\ result.err.kind = "ExpectedArgs" => result.err.n = 2
    /\ last.made =>
          /\ last.ret.kind = "Err" => last.ret.err.kind \in ReturnedErrorKinds
          /\ \A sexpr \in SubNodes(last.node) :
                LET r == compile(sexpr, last.before) IN
                (r.kind = "Ok" /\ r.typ.k = "Array") =>
                    /\ r.typ.typ = [k |-> "UInt", w |-> "S8"]
                    /\ r.typ.size # <<>>
                    /\ r.typ.size[1] >= 1

\* a call with a string-literal argument, whose array type was accepted, failed
\* on another argument
C18_Witness ==
    /\ last.made
    /\ IsCall(last.node)
    /\ Len(last.node.items) = 3
    /\ last.node.items[3].tag = "String"
    /\ result.kind = "Err"
    /\ result.err.kind = "InvalidType"

(***************************************************************************)
(* C19.  Compiling a bare word or a float literal never returns a type or  *)
(* an error: it aborts.  So compile_program aborts, returning neither Ok   *)
(* nor Err, when compilation reaches such a node before any error: a       *)
(* top-level word or float, a word or float as a call argument or as an    *)
(* operand of a two-operand +, a float as an extern argument.  A word used *)
(* as a list head or as an extern argument, and a word inside a + of wrong *)
(* arity, is never compiled and does not abort.                            *)
(***************************************************************************)
IsPlaceholder(sexpr) == sexpr.tag \in {"Word", "Float"}

\* the elements after the head of a list
Arguments(sexpr) == Tail(sexpr.items)

AllOf(sexprs, tags) == \A i \in DOMAIN sexprs : sexprs[i].tag \in tags

SomeOf(sexprs, tags) == \E i \in DOMAIN sexprs : sexprs[i].tag \in tags

C19_PlaceholdersAbort ==
    /\ pc = "panicked" =>
          /\ last.ret.kind = "Panic"
          /\ result = NoResult
          /\ ~ENABLED Next
    /\ last.made =>
          LET sexpr == last.node
              aborted == last.ret.kind = "Panic" /\ pc = "panicked"
          IN  /\ IsPlaceholder(sexpr) => aborted
              /\ (IsCall(sexpr)
                    /\ AllOf(Arguments(sexpr), {"Word", "Float", "Int", "String"})
                    /\ SomeOf(Arguments(sexpr), {"Word", "Float"})) => aborted
              /\ (IsForm(sexpr, <<"+">>, 2)
                    /\ AllOf(Arguments(sexpr), {"Word", "Float", "Int", "String"})
                    /\ SomeOf(Arguments(sexpr), {"Word", "Float"})) => aborted
              /\ (IsFormOf(sexpr, <<"e", "x", "t", "e", "r", "n">>)
                    /\ AllOf(Arguments(sexpr), {"Word", "Float", "String"})
                    /\ SomeOf(Arguments(sexpr), {"Float"})) => aborted
              \* never compiled: a head word, the words of extern, a + of wrong arity
              /\ (IsCall(sexpr) /\ AllOf(Arguments(sexpr), {"Int", "String"})) =>
                    last.ret.kind = "Ok"
              /\ (IsFormOf(sexpr, <<"e", "x", "t", "e", "r", "n">>)
                    /\ AllOf(Arguments(sexpr), {"Word", "String"})) => last.ret.kind = "Ok"
              /\ (IsFormOf(sexpr, <<"+">>) /\ Len(sexpr.items) # 3) => last.ret.kind = "Err"
              \* nothing else aborts
              /\ last.ret.kind = "Panic" => \E sub \in SubNodes(sexpr) : IsPlaceholder(sub)

\* compile_program aborted on a float given to extern after a word
C19_Witness ==
    /\ pc = "panicked"
    /\ last.made
    /\ IsFormOf(last.node, <<"e", "x", "t", "e", "r", "n">>)
    /\ SomeOf(Arguments(last.node), {"Float"})
    /\ SomeOf(Arguments(last.node), {"Word"})
    /\ compiler.program.externs # <<>>

(***************************************************************************)
(* Vocabulary of the stack balance: the bytes an instruction leaves on the *)
(* stack, and the places in main's body where the code of the top-level    *)
(* nodes and of the operands of + begins and ends.                         *)
(***************************************************************************)
\* +w/8 for push of a register of width w, -w/8 for pop into one, -n for
\* add SP, Amount(n)
StackEffect(instr) ==
    CASE instr.op = "Push" /\ instr.src.k = "Register" -> WidthBytes(instr.src.register.size)
      [] instr.op = "Pop" /\ instr.dest.k = "Register" -> 0 - WidthBytes(instr.dest.register.size)
      [] instr.op = "Add" /\ instr.dest.k = "Register" /\ instr.dest.register.name = "SP"
            /\ instr.src.k = "Amount" -> 0 - instr.src.amount
      [] OTHER -> 0

\* the running count after the first k instructions of body, counted from the
\* end of the two-instruction prologue
RECURSIVE RunningCount(_, _)
RunningCount(body, k) ==
    IF k <= 2 THEN 0 ELSE RunningCount(body, k - 1) + StackEffect(body[k])

\* the operands of every + in sexpr, compiled from c: for each, the lengths of
\* the body before and after its instructions
RECURSIVE OperandSpans(_, _), ArgumentSpans(_, _, _)
OperandSpans(sexpr, c) ==
    CASE IsForm(sexpr, <<"+">>, 2) ->
            LET L == sexpr.items[2]
                R == sexpr.items[3]
                l == compile(L, c)
                c1 == write(l.c, [op |-> "Push",
                                  src |-> Reg(RegA(RegisterSize_typ(l.typ)[1]))])
                r == compile(R, c1)
            IN  {<<Len(Body(c)), Len(Body(l.c))>>, <<Len(Body(c1)), Len(Body(r.c))>>}
                \cup OperandSpans(L, c) \cup OperandSpans(R, c1)
      [] IsCall(sexpr) -> ArgumentSpans(Tail(sexpr.items), Len(sexpr.items) - 1, c)
      [] OTHER -> {}

\* the same for the arguments i, i-1, ..., 1 of a call
ArgumentSpans(args, i, c) ==
    IF i = 0 THEN {}
    ELSE LET r == compile(args[i], c)
             pushed == IF r.typ.k = "Array" THEN r.c
                       ELSE write(r.c, [op |-> "Push",
                                        src |-> Reg(RegA(RegisterSize_typ(r.typ)[1]))])
         IN  OperandSpans(args[i], c) \cup ArgumentSpans(args, i - 1, pushed)

\* the same for the top-level nodes, and the length of the body after each
RECURSIVE ProgramSpans(_, _), NodeEnds(_, _)
ProgramSpans(nodes, c) ==
    IF nodes = <<>> THEN {}
    ELSE OperandSpans(Head(nodes), c) \cup ProgramSpans(Tail(nodes), compile(Head(nodes), c).c)

NodeEnds(nodes, c) ==
    IF nodes = <<>> THEN {}
    ELSE LET r == compile(Head(nodes), c) IN {Len(Body(r.c))} \cup NodeEnds(Tail(nodes), r.c)

\* compile_program succeeded on a program without string literals
StringFreeSuccess ==
    /\ pc = "returned"
    /\ result.kind = "Ok"
    /\ calls = 1
    /\ \A i \in DOMAIN parsed.nodes :
          \A sub \in SubNodes(parsed.nodes[i]) : sub.tag # "String"

MainBody == compiler.program.functions[1].body

MainStart == push_frame(CompilerDefault, <<"m", "a", "i", "n">>)

(***************************************************************************)
(* C20, as stated.  For a program without string literals that compiles    *)
(* successfully, the running count of stack bytes in main's body, between  *)
(* the prologue and the epilogue, is never negative and is exactly 0 after *)
(* the instructions of each top-level node and after each operand of +.    *)
(***************************************************************************)
C20_CountZeroAfterOperands ==
    StringFreeSuccess =>
        /\ \A k \in 2..(Len(MainBody) - 2) : RunningCount(MainBody, k) >= 0
        /\ \A k \in NodeEnds(parsed.nodes, MainStart) : RunningCount(MainBody, k) = 0
        /\ \A span \in ProgramSpans(parsed.nodes, MainStart) :
              RunningCount(MainBody, span[2]) = 0

(***************************************************************************)
(* C20, amended.  For a program without string literals that compiles      *)
(* successfully, the running count is never negative and is exactly 0      *)
(* after the instructions of each top-level node; the instructions of each *)
(* operand of + leave the count as they found it, and never take it below  *)
(* that: after the left operand of a + that is the first top-level node   *)
(* the count is 0, after its right operand it is the width of the saved    *)
(* left operand.                                                           *)
(***************************************************************************)
C20_StackBalance ==
    StringFreeSuccess =>
        /\ \A k \in 2..(Len(MainBody) - 2) : RunningCount(MainBody, k) >= 0
        /\ \A k \in NodeEnds(parsed.nodes, MainStart) : RunningCount(MainBody, k) = 0
        /\ \A span \in ProgramSpans(parsed.nodes, MainStart) :
              /\ RunningCount(MainBody, span[2]) = RunningCount(MainBody, span[1])
              /\ \A k \in span[1]..span[2] :
                    RunningCount(MainBody, k) >= RunningCount(MainBody, span[1])
        /\ (parsed.nodes # <<>> /\ IsForm(parsed.nodes[1], <<"+">>, 2)) =>
                 \E left, right \in OperandSpans(parsed.nodes[1], MainStart) :
                    /\ left[1] = 2
                    /\ left[2] + 1 = right[1]
                    /\ RunningCount(MainBody, left[2]) = 0
                    /\ RunningCount(MainBody, right[2]) = StackEffect(MainBody[right[1]])
                    /\ RunningCount(MainBody, right[2]) > 0

\* a program whose + is the right operand of another + was compiled: the inner
\* operands begin and end with the outer left operand on the stack
C20_Witness ==
    /\ StringFreeSuccess
    /\ \E span \in ProgramSpans(parsed.nodes, MainStart) :
          /\ span[2] > span[1] + 1
          /\ RunningCount(MainBody, span[1]) > 0
          /\ RunningCount(MainBody, span[2]) = RunningCount(MainBody, span[1])

(***************************************************************************)
(* C21.  Register text round trip: for each of the 16 names at each of the *)
(* 4 widths, parsing the register's rendered text with Register::from_str  *)
(* succeeds and yields the same register.                                  *)
(***************************************************************************)
C21_RegisterRoundTrip ==
    (out # Idle /\ out.k = "parsed") => out.register = <<arg>>

(***************************************************************************)
(* C22.  A form of type None is never used as a value: when a call form,   *)
(* an extern form or an empty list is compiled, without error, as an       *)
(* argument of a call or as the left operand of a two-operand +, compile   *)
(* fails with InvalidType(None) positioned at that argument or operand,    *)
(* and what the nested form emitted stays in the frame's body; so no       *)
(* successfully compiled program holds a call nested as an argument of a   *)
(* call or as an operand of +.                                             *)
(***************************************************************************)
IsNoneForm(sexpr) ==
    \/ IsCall(sexpr)
    \/ IsFormOf(sexpr, <<"e", "x", "t", "e", "r", "n">>)
    \/ (sexpr.tag = "Expr" /\ sexpr.items = <<>>)

\* the arguments i, i-1, ..., lo of a call compiled in that order from c, each
\* to a representable type: whether that succeeds, and the compiler after it
RECURSIVE ArgumentsCompiled(_, _, _, _)
ArgumentsCompiled(args, i, lo, c) ==
    IF i < lo THEN [ok |-> TRUE, c |-> c]
    ELSE LET r == compile(args[i], c)
             w == RegisterSize_typ(r.typ)
         IN  IF r.kind # "Ok" \/ w = <<>> \/ (r.typ.k = "Array" /\ r.typ.size = <<>>)
             THEN [ok |-> FALSE, c |-> c]
             ELSE ArgumentsCompiled(args, i - 1, lo,
                     IF r.typ.k = "Array" THEN r.c
                     ELSE write(r.c, [op |-> "Push", src |-> Reg(RegA(w[1]))]))

C22_NoneIsNoValue ==
    /\ (last.made /\ IsCall(last.node)) =>
          LET args == Tail(last.node.items) IN
          \A i \in DOMAIN args :
             LET right == ArgumentsCompiled(args, Len(args), i + 1, last.before)
                 nested == compile(args[i], right.c)
             IN  (IsNoneForm(args[i]) /\ right.ok /\ nested.kind = "Ok") =>
                    /\ nested.typ = [k |-> "None"]
                    /\ last.ret.kind = "Err"
                    /\ last.ret.err = [kind |-> "InvalidType", typ |-> [k |-> "None"]]
                    /\ last.ret.pos = args[i].pos
                    /\ last.ret.c = nested.c
                    /\ result.kind = "Err" /\ result.err = last.ret.err /\ result.pos = args[i].pos
    /\ (last.made /\ IsForm(last.node, <<"+">>, 2)) =>
          LET L == last.node.items[2]
              nested == compile(L, last.before)
          IN  (IsNoneForm(L) /\ nested.kind = "Ok") =>
                 /\ nested.typ = [k |-> "None"]
                 /\ last.ret.kind = "Err"
                 /\ last.ret.err = [kind |-> "InvalidType", typ |-> [k |-> "None"]]
                 /\ last.ret.pos = L.pos
                 /\ last.ret.c = nested.c
                 /\ result.kind = "Err" /\ result.err = last.ret.err /\ result.pos = L.pos
    /\ (pc = "returned" /\ result.kind = "Ok") =>
          \A n \in DOMAIN parsed.nodes :
             \A sub \in SubNodes(parsed.nodes[n]) :
                (IsCall(sub) \/ IsFormOf(sub, <<"+">>)) =>
                   \A i \in DOMAIN Tail(sub.items) : ~IsCall(Tail(sub.items)[i])

\* a call failed on a nested call that is not its last argument and that left
\* its own instructions, call and stack adjustment included, in the body
C22_Witness ==
    /\ last.made
    /\ IsCall(last.node)
    /\ Len(last.node.items) = 3
    /\ IsCall(last.node.items[2])
    /\ Len(last.node.items[2].items) >= 2
    /\ last.ret.kind = "Err"
    /\ last.ret.err = [kind |-> "InvalidType", typ |-> [k |-> "None"]]
    /\ last.ret.pos = last.node.items[2].pos
    /\ Body(last.ret.c)[Len(Body(last.ret.c))].op = "Add"

(***************************************************************************)
(* C23.  String-pool indices follow compile order, not source order: in a  *)
(* successfully compiled function the i-th push of a string-constant       *)
(* symbol in the body, counting from 0, is push <fn>_c<i>, and the pool's  *)
(* i-th entry is the text of the i-th string literal compiled.  Call       *)
(* arguments being compiled rightmost first, in (f "a" "b") the constant   *)
(* "b" gets the lower index; of the operands of + the left one does.       *)
(***************************************************************************)
\* the texts of the string literals of sexpr in the order in which they are
\* compiled: the arguments of a call from the right, the operands of + from
\* the left, the names given to extern not at all
RECURSIVE CompileOrder(_), CompileOrderOf(_, _, _)
CompileOrder(sexpr) ==
    CASE sexpr.tag = "String" -> <<sexpr.string>>
      [] IsCall(sexpr) -> CompileOrderOf(Tail(sexpr.items), Len(sexpr.items) - 1, -1)
      [] IsForm(sexpr, <<"+">>, 2) -> CompileOrderOf(Tail(sexpr.items), 1, 1)
      [] OTHER -> <<>>

\* the same for the elements from index i on, in steps of step
CompileOrderOf(sexprs, i, step) ==
    IF i < 1 \/ i > Len(sexprs) THEN <<>>
    ELSE CompileOrder(sexprs[i]) \o CompileOrderOf(sexprs, i + step, step)

RECURSIVE CompileOrderOfNodes(_)
CompileOrderOfNodes(nodes) ==
    IF nodes = <<>> THEN <<>> ELSE CompileOrder(Head(nodes)) \o CompileOrderOfNodes(Tail(nodes))

NamePush(function, index) ==
    [op |-> "Push", src |-> [k |-> "Name", name |-> SymbolOf(function, index)]]

C23_PoolFollowsCompileOrder ==
    /\ (pc = "returned" /\ result.kind = "Ok" /\ calls = 1) =>
          LET function == compiler.program.functions[1]
              pushes == SelectSeq(function.body, IsNamePush)
          IN  /\ function.strings = CompileOrderOfNodes(parsed.nodes)
              /\ pushes = [i \in DOMAIN function.strings |-> NamePush(function.name, i - 1)]
    /\ (last.made /\ last.ret.kind = "Ok"
          /\ (IsCall(last.node) \/ IsForm(last.node, <<"+">>, 2))
          /\ Len(last.node.items) = 3
          /\ last.node.items[2].tag = "String" /\ last.node.items[3].tag = "String") =>
          LET first == last.node.items[2].string
              second == last.node.items[3].string
              fn == frame(last.before).function
              k == Len(fn.strings)
              pushes == SelectSeq(Appended(last.before, last.ret.c), IsNamePush)
          IN  /\ pushes = <<NamePush(fn.name, k), NamePush(fn.name, k + 1)>>
              /\ IsCall(last.node) =>
                    frame(last.ret.c).function.strings = fn.strings \o <<second, first>>
              /\ IsForm(last.node, <<"+">>, 2) =>
                    frame(last.ret.c).function.strings = fn.strings \o <<first, second>>

\* a call with two different string literals was compiled when the pool held
\* a constant already
C23_Witness ==
    /\ last.made
    /\ last.ret.kind = "Ok"
    /\ IsCall(last.node)
    /\ Len(last.node.items) = 3
    /\ last.node.items[2].tag = "String"
    /\ last.node.items[3].tag = "String"
    /\ last.node.items[2].string # last.node.items[3].string
    /\ frame(last.before).function.strings # <<>>
    /\ frame(last.ret.c).function.strings[Len(frame(last.before).function.strings) + 1]
          = last.node.items[3].string

(***************************************************************************)
(* C24.  The + form accepts array operands: for two string literals of     *)
(* equal byte length n, (+ "s" "t") compiles without error, returns the    *)
(* array of unsigned 8-bit of known size n+1 and emits push <fn>_c<k>,     *)
(* push A@8, push <fn>_c<k+1>, mov B@8 <- A@8, pop A@8, add A@8, B@8; for  *)
(* two string literals of different byte lengths it fails with             *)
(* InvalidTypeExpected positioned at the right literal.                    *)
(***************************************************************************)
ByteArray(n) == [k |-> "Array", typ |-> [k |-> "UInt", w |-> "S8"], size |-> <<n>>]

C24_PlusOfStrings ==
    (last.made /\ IsForm(last.node, <<"+">>, 2)
       /\ last.node.items[2].tag = "String" /\ last.node.items[3].tag = "String") =>
        LET L == last.node.items[2]
            R == last.node.items[3]
            n == Utf8Bytes(L.string)
            m == Utf8Bytes(R.string)
            fn == frame(last.before).function
            k == Len(fn.strings)
        IN  /\ frame(last.ret.c).function.strings = fn.strings \o <<L.string, R.string>>
            /\ n = m =>
                  /\ last.ret.kind = "Ok"
                  /\ last.ret.typ = ByteArray(n + 1)
                  /\ Appended(last.before, last.ret.c) =
                        <<NamePush(fn.name, k),
                          [op |-> "Push", src |-> Reg(RegA("S8"))],
                          NamePush(fn.name, k + 1),
                          [op |-> "Mov", dest |-> Reg(RegB("S8")), src |-> Reg(RegA("S8"))],
                          [op |-> "Pop", dest |-> Reg(RegA("S8"))],
                          [op |-> "Add", dest |-> Reg(RegA("S8")), src |-> Reg(RegB("S8"))]>>
            /\ n # m =>
                  /\ last.ret.kind = "Err"
                  /\ last.ret.err = [kind |-> "InvalidTypeExpected",
                                     expected |-> ByteArray(n + 1), got |-> ByteArray(m + 1)]
                  /\ last.ret.pos = R.pos
                  /\ Appended(last.before, last.ret.c) =
                        <<NamePush(fn.name, k),
                          [op |-> "Push", src |-> Reg(RegA("S8"))],
                          NamePush(fn.name, k + 1)>>

\* a + of two string literals of equal byte length and different numbers of
\* characters was compiled without error
C24_Witness ==
    /\ last.made
    /\ IsForm(last.node, <<"+">>, 2)
    /\ last.node.items[2].tag = "String"
    /\ last.node.items[3].tag = "String"
    /\ Len(last.node.items[2].string) # Len(last.node.items[3].string)
    /\ last.ret.kind = "Ok"
    /\ last.ret.typ.k = "Array"
====
